---- MODULE Spec2Model ----
(***************************************************************************)
(* A model of the spatial index of the splat editor: grid construction     *)
(* (src/src/spatial-index.ts), region segmentation (scene-manifest) and    *)
(* click-seeded local selection (src/src/click-selection.ts).              *)
(*                                                                         *)
(* Numbers.  World coordinates are integers.  Quantities the code obtains  *)
(* by division (normalised coordinates, cell sizes, means) are kept as     *)
(* exact fractions [n, d] with d > 0 and compared by cross-multiplication, *)
(* so no rounding is introduced by the model.  Colours are integers in     *)
(* hundredths (ColorDen).  JavaScript's non-finite numbers are kept        *)
(* for the components of a Box3, which is where the code meets them.       *)
(***************************************************************************)
EXTENDS Integers, Sequences, FiniteSets, TLC

VARIABLES
  pc,            \* position of the operation being run
  rawBounds,     \* splatMesh.getBoundingBox() / the rawBounds argument
  config,        \* SpatialIndexOptions: resolution, cropYFraction
  cropped,       \* CroppedBoundsResult of computeCroppedBounds
  accumulators,  \* Map<string, VoxelAccumulator> of buildSpatialGrid
  totalSplats,   \* let totalSplats
  indexedSplats, \* let indexedSplats
  splats,        \* the splats forEachSplat has delivered so far, in order
  grid,          \* the SpatialGrid returned by buildSpatialGrid
  query,         \* arguments of the query being answered
  answer,        \* what the query returned
  cellLabels,    \* Map<string, CellLabel> of generateManifest
  visited,       \* Set<string> visited (buildRegions / buildLocalSelection)
  queue,         \* the work list of floodFill / buildLocalSelection
  component,     \* string[] component of the floodFill in progress
  cursor,        \* position of buildRegions' loop in cellLabels
  regions,       \* SemanticRegion[] regions
  accepted,      \* Map<string, VoxelCell> accepted of buildLocalSelection
  rejectedCells, \* let rejectedCells
  reasons,       \* string[] reasons
  seedKey,       \* const seedKey of buildLocalSelection
  attempt,       \* let attempt of processCommand's retry loop
  lastError,     \* let lastError of processCommand
  requests,      \* the requests processCommand has sent to the models, in order
  currentGrid,     \* let currentGrid (main.ts)
  currentManifest, \* let currentManifest
  lastClickPoint,  \* let lastClickPoint
  currentWorldId,  \* let currentWorldId
  worldLoading,    \* let worldLoading
  loadCalls        \* the calls of loadWorldById made so far, with their outcomes

traversal == <<cellLabels, visited, queue, component, cursor, regions,
               accepted, rejectedCells, reasons, seedKey>>

\* the module state of the agent and of the application
session == <<attempt, lastError, requests, currentGrid, currentManifest,
             lastClickPoint, currentWorldId, worldLoading, loadCalls>>

vars == <<pc, rawBounds, config, cropped, accumulators, totalSplats,
          indexedSplats, splats, grid, query, answer, traversal, session>>

(***************************************************************************)
(* Bounds of the model (not program constants).                            *)
(***************************************************************************)
MaxSplats == 3
MaxBoxTens == 2
MaxCropTenths == 6
MaxCoord == 10
MaxQuerySplats == 3
MaxRegionCells == 4
MaxSelectCells == 4
MaxNeighborSplats == 3
HalfCellPoints == 5

(***************************************************************************)
(* Scales of the fixed-point quantities.                                   *)
(***************************************************************************)
CropDen == 10
ColorDen == 100

(***************************************************************************)
(* JavaScript numbers as far as Box3 needs them: finite integers,          *)
(* +Infinity, -Infinity and NaN.                                           *)
(***************************************************************************)
Fin(v) == [k |-> "fin", v |-> v]
PosInf == [k |-> "inf", v |-> 0]
NegInf == [k |-> "ninf", v |-> 0]
NaN == [k |-> "nan", v |-> 0]

isFinite(a) == a.k = "fin"

\* a < b
XLess(a, b) ==
  CASE a.k = "nan" \/ b.k = "nan" -> FALSE
    [] a.k = "fin" /\ b.k = "fin" -> a.v < b.v
    [] a.k = "ninf" -> b.k # "ninf"
    [] a.k = "inf" -> FALSE
    [] OTHER -> b.k = "inf"

\* a <= b
XLeq(a, b) ==
  CASE a.k = "nan" \/ b.k = "nan" -> FALSE
    [] a.k = "fin" /\ b.k = "fin" -> a.v <= b.v
    [] a.k = "ninf" -> TRUE
    [] a.k = "inf" -> b.k = "inf"
    [] OTHER -> b.k = "inf"

\* a - b
XSub(a, b) ==
  CASE a.k = "nan" \/ b.k = "nan" -> NaN
    [] a.k = "fin" /\ b.k = "fin" -> Fin(a.v - b.v)
    [] a.k = "fin" -> IF b.k = "inf" THEN NegInf ELSE PosInf
    [] b.k = "fin" -> a
    [] a.k = b.k -> NaN
    [] OTHER -> a

\* Math.min / Math.max of two numbers
XMin(a, b) ==
  IF a.k = "nan" \/ b.k = "nan" THEN NaN ELSE IF XLess(b, a) THEN b ELSE a
XMax(a, b) ==
  IF a.k = "nan" \/ b.k = "nan" THEN NaN ELSE IF XLess(a, b) THEN b ELSE a

Min2(a, b) == IF a <= b THEN a ELSE b
Max2(a, b) == IF a >= b THEN a ELSE b

(***************************************************************************)
(* THREE.Box3 with the methods the index calls.                            *)
(***************************************************************************)
FinVec(p) == [i \in 1..3 |-> Fin(p[i])]
Box3(mn, mx) == [min |-> mn, max |-> mx]
FinBox(mn, mx) == Box3(FinVec(mn), FinVec(mx))
\* new THREE.Box3(): the empty box
EmptyBox3 == Box3(<<PosInf, PosInf, PosInf>>, <<NegInf, NegInf, NegInf>>)

isEmpty(b) == \E i \in 1..3 : XLess(b.max[i], b.min[i])

getSize(b) ==
  IF isEmpty(b) THEN <<Fin(0), Fin(0), Fin(0)>>
  ELSE [i \in 1..3 |-> XSub(b.max[i], b.min[i])]

containsPoint(b, p) ==
  \A i \in 1..3 : XLeq(b.min[i], Fin(p[i])) /\ XLeq(Fin(p[i]), b.max[i])

expandByPoint(b, p) ==
  Box3([i \in 1..3 |-> XMin(b.min[i], p[i])], [i \in 1..3 |-> XMax(b.max[i], p[i])])

(***************************************************************************)
(* gridKey: the key "x,y,z" of a cell; the triple itself stands for the    *)
(* string, which is a one-to-one rendering of it.                          *)
(***************************************************************************)
gridKey(x, y, z) == <<x, y, z>>

\* A JavaScript Map: the keys in insertion order, and the value of each key.
EmptyMap == [order |-> <<>>, val |-> <<>>]
MapHas(m, k) == \E i \in 1..Len(m.order) : m.order[i] = k
MapKeys(m) == {m.order[i] : i \in 1..Len(m.order)}
MapGet(m, k) == m.val[CHOOSE i \in 1..Len(m.order) : m.order[i] = k]
MapSet(m, k, v) ==
  IF MapHas(m, k)
  THEN [m EXCEPT !.val[CHOOSE i \in 1..Len(m.order) : m.order[i] = k] = v]
  ELSE [order |-> Append(m.order, k), val |-> Append(m.val, v)]
MapSize(m) == Len(m.order)

(***************************************************************************)
(* computeCroppedBounds.  The result also carries the state of the         *)
(* rawBounds object after the call (the code works on a clone).            *)
(***************************************************************************)
computeCroppedBoundsAliased(rawBounds_, cropFractions) ==
  LET size == getSize(rawBounds_)
      height == size[2]
  IN IF ~isFinite(height) \/ height.v <= 0
     THEN [bounds |-> rawBounds_, usedFallback |-> TRUE, raw |-> rawBounds_]
     ELSE LET minY == rawBounds_.min[2].v + (height.v * cropFractions[1]) \div CropDen
              maxY == rawBounds_.max[2].v - (height.v * cropFractions[2]) \div CropDen
              out == [rawBounds_ EXCEPT !.min[2] = Fin(minY), !.max[2] = Fin(maxY)]
          IN IF ~(maxY > minY)
             THEN [bounds |-> rawBounds_, usedFallback |-> TRUE, raw |-> rawBounds_]
             ELSE [bounds |-> out, usedFallback |-> FALSE, raw |-> out]

computeCroppedBoundsNoFallback(rawBounds_, cropFractions) ==
  LET size == getSize(rawBounds_)
      height == size[2]
  IN IF ~isFinite(height) \/ height.v <= 0
     THEN [bounds |-> rawBounds_, usedFallback |-> TRUE, raw |-> rawBounds_]
     ELSE LET minY == rawBounds_.min[2].v + (height.v * cropFractions[1]) \div CropDen
              maxY == rawBounds_.max[2].v - (height.v * cropFractions[2]) \div CropDen
          IN [bounds |-> [rawBounds_ EXCEPT !.min[2] = Fin(minY), !.max[2] = Fin(maxY)],
              usedFallback |-> FALSE, raw |-> rawBounds_]

computeCroppedBounds(rawBounds_, cropFractions) ==
  LET bounds == rawBounds_
      size == getSize(bounds)
      height == size[2]
  IN IF ~isFinite(height) \/ height.v <= 0
     THEN [bounds |-> bounds, usedFallback |-> TRUE, raw |-> rawBounds_]
     ELSE LET cropBottom == cropFractions[1]
              cropTop == cropFractions[2]
              minY == rawBounds_.min[2].v + (height.v * cropBottom) \div CropDen
              maxY == rawBounds_.max[2].v - (height.v * cropTop) \div CropDen
          IN IF ~(maxY > minY)
             THEN [bounds |-> bounds, usedFallback |-> TRUE, raw |-> rawBounds_]
             ELSE [bounds |-> [bounds EXCEPT !.min[2] = Fin(minY), !.max[2] = Fin(maxY)],
                   usedFallback |-> FALSE, raw |-> rawBounds_]

(***************************************************************************)
(* worldPosToGridCoord and its helpers.  A normalised coordinate is the    *)
(* fraction [n, d]; no coordinate is the empty tuple (null).               *)
(***************************************************************************)
Null == <<>>

normalizeAxis(value, min, size) ==
  IF ~isFinite(size) \/ size.v <= 0
  THEN [n |-> 0, d |-> 1]
  ELSE LET num == value - min.v
       IN IF num < 0 THEN [n |-> 0, d |-> 1]
          ELSE IF num > size.v THEN [n |-> 1, d |-> 1]
          ELSE [n |-> num, d |-> size.v]

normalizedToIndexUncapped(normalized, resolution) ==
  IF resolution <= 1 THEN 0
  ELSE (normalized.n * resolution) \div normalized.d

normalizedToIndex(normalized, resolution) ==
  IF resolution <= 1 THEN 0
  ELSE IF normalized.n >= normalized.d THEN resolution - 1
  ELSE Max2(0, Min2((normalized.n * resolution) \div normalized.d, resolution - 1))

worldPosToGridCoordWrapping(worldPos, gridBounds, resolution, clamp) ==
  LET size == getSize(gridBounds)
  IN [i \in 1..3 |->
        normalizedToIndex(normalizeAxis(worldPos[i], gridBounds.min[i], size[i]),
                          resolution[i])]

worldPosToGridCoord(worldPos, gridBounds, resolution, clamp) ==
  IF ~containsPoint(gridBounds, worldPos) /\ ~clamp
  THEN Null
  ELSE LET size == getSize(gridBounds)
       IN [i \in 1..3 |->
             normalizedToIndex(normalizeAxis(worldPos[i], gridBounds.min[i], size[i]),
                               resolution[i])]

(***************************************************************************)
(* buildSpatialGrid.                                                       *)
(***************************************************************************)
DEFAULT_OPTIONS == [resolution |-> <<20, 20, 20>>, cropYFraction |-> <<1, 1>>]

isDegenerateBoundsSizeOnly(bounds) ==
  LET size == getSize(bounds)
  IN \E i \in 1..3 : XLeq(size[i], Fin(0))

isDegenerateBounds(bounds) ==
  LET size == getSize(bounds)
  IN \/ \E i \in 1..3 : ~isFinite(bounds.min[i]) \/ ~isFinite(bounds.max[i])
     \/ \E i \in 1..3 : XLeq(size[i], Fin(0))

\* safeDiv(n, d), as a fraction
safeDiv(n, d) == IF d > 0 THEN [n |-> n, d |-> d] ELSE [n |-> 0, d |-> 1]

\* called on finite bounds only (after the degenerate check)
computeNominalCellSize(bounds, resolution) ==
  LET size == getSize(bounds)
  IN [i \in 1..3 |-> safeDiv(size[i].v, resolution[i])]

\* Math.max(cellSize.x * cellSize.y * cellSize.z, 1e-9)
nominalCellVolume(cellSize) ==
  LET n == cellSize[1].n * cellSize[2].n * cellSize[3].n
      d == cellSize[1].d * cellSize[2].d * cellSize[3].d
  IN IF n <= 0 THEN [n |-> 1, d |-> 1000000000] ELSE [n |-> n, d |-> d]

VecAdd(a, b) == [i \in 1..3 |-> a[i] + b[i]]
VecMin(a, b) == [i \in 1..3 |-> Min2(a[i], b[i])]
VecMax(a, b) == [i \in 1..3 |-> Max2(a[i], b[i])]
VecSq(a) == [i \in 1..3 |-> a[i] * a[i]]

NewAccumulatorCounted(coord, center) ==
  [gridPos |-> coord, count |-> 1, sumPos |-> <<0, 0, 0>>,
   sumColor |-> <<0, 0, 0>>, sumColorSq |-> <<0, 0, 0>>,
   min |-> center, max |-> center, splatIndices |-> <<>>]

NewAccumulator(coord, center) ==
  [gridPos |-> coord, count |-> 0, sumPos |-> <<0, 0, 0>>,
   sumColor |-> <<0, 0, 0>>, sumColorSq |-> <<0, 0, 0>>,
   min |-> center, max |-> center, splatIndices |-> <<>>]

\* The body of the forEachSplat callback on the running state
\* st = [accumulators, totalSplats, indexedSplats].
AddToAccumulator(acc, index, center, color) ==
  [acc EXCEPT !.count = @ + 1,
              !.sumPos = VecAdd(@, center),
              !.sumColor = VecAdd(@, color),
              !.sumColorSq = VecAdd(@, VecSq(color)),
              !.min = VecMin(@, center),
              !.max = VecMax(@, center),
              !.splatIndices = Append(@, index)]

splatCallbackClamping(st, croppedBounds, resolution, index, center, color) ==
  LET coord == worldPosToGridCoord(center, croppedBounds, resolution, TRUE)
      key == gridKey(coord[1], coord[2], coord[3])
      acc == IF MapHas(st.accumulators, key) THEN MapGet(st.accumulators, key)
             ELSE NewAccumulator(coord, center)
  IN [accumulators |-> MapSet(st.accumulators, key,
                              AddToAccumulator(acc, index, center, color)),
      totalSplats |-> st.totalSplats + 1,
      indexedSplats |-> st.indexedSplats + 1]

splatCallback(st, croppedBounds, resolution, index, center, color) ==
  LET coord == worldPosToGridCoord(center, croppedBounds, resolution, FALSE)
  IN IF coord = Null
     THEN [st EXCEPT !.totalSplats = @ + 1]
     ELSE LET key == gridKey(coord[1], coord[2], coord[3])
              acc == IF MapHas(st.accumulators, key) THEN MapGet(st.accumulators, key)
                     ELSE NewAccumulator(coord, center)
          IN [accumulators |-> MapSet(st.accumulators, key,
                                      AddToAccumulator(acc, index, center, color)),
              totalSplats |-> st.totalSplats + 1,
              indexedSplats |-> st.indexedSplats + 1]

finalizeVoxelCell(acc, volume) ==
  LET variance(i) == Max2(0, acc.sumColorSq[i] * acc.count - acc.sumColor[i] * acc.sumColor[i])
  IN [gridPos |-> acc.gridPos,
      worldCenter |-> [n |-> acc.sumPos, d |-> acc.count],
      worldBounds |-> FinBox(acc.min, acc.max),
      splatCount |-> acc.count,
      avgColor |-> [n |-> acc.sumColor, d |-> acc.count],
      colorVariance |-> [n |-> variance(1) + variance(2) + variance(3),
                         d |-> 3 * acc.count * acc.count],
      density |-> [n |-> acc.count * volume.d, d |-> volume.n],
      splatIndices |-> acc.splatIndices]

\* the loop "for (const [key, acc] of accumulators) cells.set(key, finalize...)"
finalizeCells(accs, volume) ==
  [order |-> accs.order,
   val |-> [i \in 1..Len(accs.order) |-> finalizeVoxelCell(accs.val[i], volume)]]

emptyGrid(resolution, bounds) ==
  [resolution |-> resolution, worldBounds |-> bounds,
   cellSize |-> <<safeDiv(0, 1), safeDiv(0, 1), safeDiv(0, 1)>>, cells |-> EmptyMap]

InitialBuildState == [accumulators |-> EmptyMap, totalSplats |-> 0, indexedSplats |-> 0]

RECURSIVE forEachSplat(_, _, _, _, _)
forEachSplat(st, croppedBounds, resolution, mesh, i) ==
  IF i > Len(mesh) THEN st
  ELSE LET next == splatCallback(st, croppedBounds, resolution, i - 1,
                                 mesh[i].center, mesh[i].color)
       \* every callback counts its splat; the test makes the evaluation strict
       IN IF next.totalSplats > st.totalSplats
          THEN forEachSplat(next, croppedBounds, resolution, mesh, i + 1)
          ELSE next

\* buildSpatialGrid run to completion on a whole mesh
buildSpatialGrid(bounds, options, mesh) ==
  IF isDegenerateBounds(bounds)
  THEN emptyGrid(options.resolution, bounds)
  ELSE LET croppedBounds == computeCroppedBounds(bounds, options.cropYFraction).bounds
           cellSize == computeNominalCellSize(croppedBounds, options.resolution)
           st == forEachSplat(InitialBuildState, croppedBounds, options.resolution, mesh, 1)
       IN [resolution |-> options.resolution, worldBounds |-> croppedBounds,
           cellSize |-> cellSize,
           cells |-> finalizeCells(st.accumulators, nominalCellVolume(cellSize))]

(***************************************************************************)
(* Inputs of the model.                                                    *)
(***************************************************************************)
None == "none"

\* no region growing or selection is in progress
NoTraversal ==
  /\ cellLabels = None /\ visited = None /\ queue = None /\ component = None
  /\ cursor = None /\ regions = None /\ accepted = None /\ rejectedCells = None
  /\ reasons = None /\ seedKey = None

\* neither the agent nor the application takes part
NoSession ==
  /\ attempt = None /\ lastError = None /\ requests = None
  /\ currentGrid = None /\ currentManifest = None /\ lastClickPoint = None
  /\ currentWorldId = None /\ worldLoading = None /\ loadCalls = None

\* Heights in multiples of CropDen, so that height * fraction is a whole number.
CropBoxes ==
  {FinBox(<<x0, y0, 0>>, <<5, y0 + h * CropDen, 10>>) :
     x0 \in {-5, 0, 5}, y0 \in {-10, 0, 5}, h \in -1..MaxBoxTens}
  \cup {EmptyBox3,
        Box3(<<Fin(0), Fin(0), Fin(0)>>, <<Fin(5), PosInf, Fin(10)>>),
        Box3(<<Fin(0), NaN, Fin(0)>>, <<Fin(5), Fin(10), Fin(10)>>),
        Box3(<<Fin(0), Fin(0), Fin(0)>>, <<PosInf, Fin(10), Fin(10)>>)}

CropFractions == (0..MaxCropTenths) \X (0..MaxCropTenths)

(***************************************************************************)
(* computeCroppedBounds as an operation of its own.                        *)
(***************************************************************************)
InitCrop ==
  /\ NoTraversal /\ NoSession
  /\ pc = "crop.call"
  /\ rawBounds \in CropBoxes
  /\ \E c \in CropFractions : query = [rawBounds |-> rawBounds, cropFractions |-> c]
  /\ config = None /\ cropped = None /\ accumulators = None
  /\ totalSplats = 0 /\ indexedSplats = 0 /\ splats = <<>>
  /\ grid = None /\ answer = None

CallComputeCroppedBounds ==
  /\ pc = "crop.call"
  /\ LET r == computeCroppedBounds(rawBounds, query.cropFractions)
     IN /\ cropped' = [bounds |-> r.bounds, usedFallback |-> r.usedFallback]
        /\ rawBounds' = r.raw
  /\ pc' = "crop.returned"
  /\ UNCHANGED <<traversal, session, config, accumulators, totalSplats, indexedSplats, splats, grid,
                 query, answer>>

NextCrop == CallComputeCroppedBounds

SpecCrop == InitCrop /\ [][NextCrop]_vars

(***************************************************************************)
(* worldPosToGridCoord as an operation of its own.                         *)
(***************************************************************************)
CoordBoxes == {FinBox(<<0, 1, 0>>, <<8, 9, 4>>), FinBox(<<-2, 0, 1>>, <<4, 10, 3>>)}
CoordResolutions == {<<10, 4, 1>>, <<3, 8, 2>>, <<1, 5, 4>>}
CoordPoints == (-3..MaxCoord) \X (-1..MaxCoord) \X {0, 1, 3, 4, 5}

InitCoord ==
  /\ NoTraversal /\ NoSession
  /\ pc = "coord.call"
  /\ \E b \in CoordBoxes, r \in CoordResolutions, p \in CoordPoints, c \in BOOLEAN :
       query = [worldPos |-> p, gridBounds |-> b, resolution |-> r, clamp |-> c]
  /\ rawBounds = None /\ config = None /\ cropped = None /\ accumulators = None
  /\ totalSplats = 0 /\ indexedSplats = 0 /\ splats = <<>>
  /\ grid = None /\ answer = None

CallWorldPosToGridCoord ==
  /\ pc = "coord.call"
  /\ answer' = worldPosToGridCoord(query.worldPos, query.gridBounds,
                                   query.resolution, query.clamp)
  /\ pc' = "coord.returned"
  /\ UNCHANGED <<traversal, session, rawBounds, config, cropped, accumulators, totalSplats,
                 indexedSplats, splats, grid, query>>

NextCoord == CallWorldPosToGridCoord

SpecCoord == InitCoord /\ [][NextCoord]_vars

(***************************************************************************)
(* Claims about computeCroppedBounds (SpecCrop).                           *)
(***************************************************************************)
\* The raw height as the caller sees it: max.y - min.y of the box passed in.
RawHeightFinite(b) == isFinite(b.min[2]) /\ isFinite(b.max[2])
RawHeight(b) == b.max[2].v - b.min[2].v
\* CropDen times the cropped minimum and maximum Y
TenMinY(b, c) == CropDen * b.min[2].v + RawHeight(b) * c[1]
TenMaxY(b, c) == CropDen * b.max[2].v - RawHeight(b) * c[2]
CroppedHeightPositive(b, c) ==
  RawHeightFinite(b) /\ RawHeight(b) > 0 /\ TenMaxY(b, c) > TenMinY(b, c)

\* C6: when the cropped height stays positive, computeCroppedBounds returns
\* usedFallback = false, min.y raised by height * cropBottom, max.y lowered by
\* height * cropTop, X and Z as in the raw bounds, and the raw bounds object
\* passed in is not modified.
C6_CropShrinksOnlyY ==
  (pc = "crop.returned" /\ CroppedHeightPositive(query.rawBounds, query.cropFractions)) =>
    /\ cropped.usedFallback = FALSE
    /\ isFinite(cropped.bounds.min[2]) /\ isFinite(cropped.bounds.max[2])
    /\ CropDen * cropped.bounds.min[2].v = TenMinY(query.rawBounds, query.cropFractions)
    /\ CropDen * cropped.bounds.max[2].v = TenMaxY(query.rawBounds, query.cropFractions)
    /\ \A i \in {1, 3} : /\ cropped.bounds.min[i] = query.rawBounds.min[i]
                         /\ cropped.bounds.max[i] = query.rawBounds.max[i]
    /\ rawBounds = query.rawBounds

C6_Witness ==
  /\ pc = "crop.returned"
  /\ CroppedHeightPositive(query.rawBounds, query.cropFractions)
  /\ query.cropFractions[1] > 0 /\ query.cropFractions[2] > 0
  /\ cropped.bounds.min[2] # query.rawBounds.min[2]
  /\ cropped.bounds.max[2] # query.rawBounds.max[2]

\* C7: computeCroppedBounds never returns a Y range inverted or collapsed by
\* cropping: whenever the raw height is non-finite or <= 0, or the crop
\* fractions leave maxY <= minY, it returns the raw bounds unchanged together
\* with usedFallback = true.
C7_FallbackToRawBounds ==
  pc = "crop.returned" =>
    /\ ~CroppedHeightPositive(query.rawBounds, query.cropFractions) =>
         (cropped.usedFallback = TRUE /\ cropped.bounds = query.rawBounds)
    /\ cropped.usedFallback = FALSE =>
         XLess(cropped.bounds.min[2], cropped.bounds.max[2])

C7_Witness ==
  /\ pc = "crop.returned"
  /\ RawHeightFinite(query.rawBounds) /\ RawHeight(query.rawBounds) > 0
  /\ query.cropFractions[1] + query.cropFractions[2] >= CropDen
  /\ cropped.usedFallback = TRUE
  /\ cropped.bounds = query.rawBounds

(***************************************************************************)
(* Claims about worldPosToGridCoord (SpecCoord).                           *)
(***************************************************************************)
\* i is floor(normalized * resolution) capped at resolution - 1, for the
\* coordinate v of a point within [lo, lo + size] and size > 0
IsCappedFloorIndex(i, v, lo, size, resolution) ==
  \E f \in 0..resolution :
    /\ f * size <= (v - lo) * resolution
    /\ (v - lo) * resolution < (f + 1) * size
    /\ i = Min2(f, resolution - 1)

\* C5: for every point within the grid bounds (boundaries included) and every
\* resolution, worldPosToGridCoord returns on each axis an integer i with
\* 0 <= i <= resolution - 1, equal to floor(normalized * resolution) capped at
\* resolution - 1; a point on the maximum boundary maps to the last cell.
C5_IndexInRange ==
  (pc = "coord.returned" /\ containsPoint(query.gridBounds, query.worldPos)) =>
    /\ answer # Null
    /\ \A i \in 1..3 :
         /\ answer[i] \in 0..(query.resolution[i] - 1)
         /\ IsCappedFloorIndex(answer[i], query.worldPos[i], query.gridBounds.min[i].v,
                               query.gridBounds.max[i].v - query.gridBounds.min[i].v,
                               query.resolution[i])
         /\ Fin(query.worldPos[i]) = query.gridBounds.max[i] =>
              answer[i] = query.resolution[i] - 1

C5_Witness ==
  /\ pc = "coord.returned"
  /\ containsPoint(query.gridBounds, query.worldPos)
  /\ \E i \in 1..3 : /\ Fin(query.worldPos[i]) = query.gridBounds.max[i]
                     /\ query.resolution[i] > 1
                     /\ answer[i] = query.resolution[i] - 1
  /\ \E i \in 1..3 : answer[i] > 0 /\ answer[i] < query.resolution[i] - 1

(***************************************************************************)
(* buildSpatialGrid, one splat of forEachSplat at a time (SpecBuild).      *)
(***************************************************************************)
BuildBoxes ==
  {FinBox(<<0, 0, 0>>, <<4, 10, 4>>),
   FinBox(<<0, 0, 0>>, <<4, 10, 0>>),
   FinBox(<<0, 0, 0>>, <<4, -10, 4>>),
   EmptyBox3,
   Box3(<<Fin(0), Fin(0), Fin(0)>>, <<PosInf, Fin(10), Fin(4)>>)}

BuildOptions ==
  {DEFAULT_OPTIONS}
  \cup {[resolution |-> r, cropYFraction |-> c] :
          r \in {<<2, 4, 1>>, <<3, 2, 2>>}, c \in {<<1, 1>>, <<6, 6>>}}

SplatCenters ==
  {<<1, 0, 1>>, <<1, 1, 1>>, <<3, 5, 2>>, <<4, 9, 4>>, <<1, 2, 3>>, <<5, 5, 1>>}

Palette == {<<40, 30, 20>>, <<90, 90, 90>>}

InitBuild ==
  /\ NoTraversal /\ NoSession
  /\ pc = "build.start"
  /\ rawBounds \in BuildBoxes
  /\ config \in BuildOptions
  /\ cropped = None
  /\ accumulators = EmptyMap
  /\ totalSplats = 0 /\ indexedSplats = 0 /\ splats = <<>>
  /\ grid = None /\ query = None /\ answer = None

\* lines 445-453: the degenerate bounding box
ReturnEmptyGrid ==
  /\ pc = "build.start"
  /\ isDegenerateBounds(rawBounds)
  /\ grid' = emptyGrid(config.resolution, rawBounds)
  /\ pc' = "build.done"
  /\ UNCHANGED <<traversal, session, rawBounds, config, cropped, accumulators, totalSplats,
                 indexedSplats, splats, query, answer>>

\* lines 455-469
BeginScan ==
  /\ pc = "build.start"
  /\ ~isDegenerateBounds(rawBounds)
  /\ LET r == computeCroppedBounds(rawBounds, config.cropYFraction)
     IN /\ cropped' = [bounds |-> r.bounds, usedFallback |-> r.usedFallback]
        /\ rawBounds' = r.raw
  /\ pc' = "build.scan"
  /\ UNCHANGED <<traversal, session, config, accumulators, totalSplats, indexedSplats, splats, grid,
                 query, answer>>

\* lines 471-508: the callback, on the next splat of the mesh
ForEachSplat ==
  /\ pc = "build.scan"
  /\ totalSplats < MaxSplats
  /\ \E center \in SplatCenters, color \in Palette :
       LET st == splatCallback([accumulators |-> accumulators,
                                totalSplats |-> totalSplats,
                                indexedSplats |-> indexedSplats],
                               cropped.bounds, config.resolution,
                               Len(splats), center, color)
       IN /\ accumulators' = st.accumulators
          /\ totalSplats' = st.totalSplats
          /\ indexedSplats' = st.indexedSplats
          /\ splats' = Append(splats, [center |-> center, color |-> color])
  /\ UNCHANGED <<traversal, session, pc, rawBounds, config, cropped, grid, query, answer>>

\* lines 510-525: the mesh is exhausted
FinalizeGrid ==
  /\ pc = "build.scan"
  /\ LET cellSize == computeNominalCellSize(cropped.bounds, config.resolution)
     IN grid' = [resolution |-> config.resolution,
                 worldBounds |-> cropped.bounds,
                 cellSize |-> cellSize,
                 cells |-> finalizeCells(accumulators, nominalCellVolume(cellSize))]
  /\ pc' = "build.done"
  /\ UNCHANGED <<traversal, session, rawBounds, config, cropped, accumulators, totalSplats,
                 indexedSplats, splats, query, answer>>

NextBuild == ReturnEmptyGrid \/ BeginScan \/ ForEachSplat \/ FinalizeGrid

SpecBuild == InitBuild /\ [][NextBuild]_vars

\* The stepwise build and buildSpatialGrid run to completion give the same grid.
BuildAgreesWithWholeRun ==
  pc = "build.done" => grid = buildSpatialGrid(rawBounds, config, splats)

(***************************************************************************)
(* Claims about buildSpatialGrid (SpecBuild).                              *)
(***************************************************************************)
\* Any bound non-finite, or any axis size <= 0
IsDegenerateRaw(b) ==
  \E i \in 1..3 : \/ ~isFinite(b.min[i]) \/ ~isFinite(b.max[i])
                  \/ b.max[i].v - b.min[i].v <= 0

SeqElems(q) == {q[i] : i \in 1..Len(q)}

\* The cells as far as they are built: the accumulators during the scan, the
\* finished cells afterwards.
BuiltCells == IF pc = "build.done" THEN grid.cells ELSE accumulators

\* C8: buildSpatialGrid returns an empty grid (no cells, cell size zero) without
\* visiting any point whenever the raw bounding box is degenerate, i.e. any
\* bound is non-finite or any axis size is <= 0.
C8_DegenerateBoundsGiveEmptyGrid ==
  (pc \in {"build.start", "build.scan", "build.done"} /\ IsDegenerateRaw(rawBounds)) =>
    /\ pc # "build.scan"
    /\ totalSplats = 0 /\ indexedSplats = 0 /\ splats = <<>>
    /\ pc = "build.done" =>
         /\ MapSize(grid.cells) = 0
         /\ \A i \in 1..3 : grid.cellSize[i].n = 0
         /\ grid.resolution = config.resolution

C8_Witness ==
  /\ pc = "build.done"
  /\ \E i \in 1..3 : ~isFinite(rawBounds.max[i])
  /\ MapSize(grid.cells) = 0

OutsideCropped(center) ==
  \E i \in 1..3 : \/ center[i] < cropped.bounds.min[i].v
                  \/ center[i] > cropped.bounds.max[i].v

Recorders(index) ==
  {k \in 1..MapSize(BuiltCells) : index \in SeqElems(BuiltCells.val[k].splatIndices)}

\* C9: a point outside the cropped bounds on any axis is added to no cell
\* (neither wrapped around nor clamped into a boundary cell) but is still
\* counted in the total point count, so the indexed count never exceeds the
\* total count.
C9_OutsidePointsDropped ==
  (pc \in {"build.scan", "build.done"} /\ ~IsDegenerateRaw(rawBounds)) =>
    /\ totalSplats = Len(splats)
    /\ indexedSplats <= totalSplats
    /\ indexedSplats =
         Cardinality({i \in 1..Len(splats) : ~OutsideCropped(splats[i].center)})
    /\ \A i \in 1..Len(splats) :
         OutsideCropped(splats[i].center) => Recorders(i - 1) = {}

C9_Witness ==
  /\ pc = "build.done" /\ ~IsDegenerateRaw(rawBounds)
  /\ \E i \in 1..Len(splats) :
       /\ splats[i].center[2] < cropped.bounds.min[2].v
       /\ Recorders(i - 1) = {}
  /\ \E i \in 1..Len(splats) : splats[i].center[1] > cropped.bounds.max[1].v
  /\ indexedSplats >= 1 /\ indexedSplats < totalSplats

RECURSIVE SumSplatCount(_, _)
SumSplatCount(cells, k) ==
  IF k = 0 THEN 0 ELSE cells.val[k].splatCount + SumSplatCount(cells, k - 1)

\* C10: the cells of a built grid partition the indexed points: each cell has
\* splatCount >= 1 equal to the number of point indices it records, is stored
\* under the key of its own gridPos, and every point inside the cropped bounds
\* is recorded in exactly one cell, the one at its grid coordinate, so the
\* cell counts sum to the indexed point count.
C10_CellsPartitionIndexedPoints ==
  (pc = "build.done" /\ ~IsDegenerateRaw(rawBounds)) =>
    /\ \A k \in 1..MapSize(grid.cells) :
         LET cell == grid.cells.val[k]
         IN /\ cell.splatCount >= 1
            /\ cell.splatCount = Len(cell.splatIndices)
            /\ cell.splatCount = Cardinality(SeqElems(cell.splatIndices))
            /\ grid.cells.order[k] = gridKey(cell.gridPos[1], cell.gridPos[2], cell.gridPos[3])
            /\ \A j \in 1..MapSize(grid.cells) : grid.cells.order[j] = grid.cells.order[k] => j = k
    /\ \A i \in 1..Len(splats) :
         ~OutsideCropped(splats[i].center) =>
           /\ Cardinality(Recorders(i - 1)) = 1
           /\ \A k \in Recorders(i - 1), a \in 1..3 :
                IsCappedFloorIndex(grid.cells.val[k].gridPos[a], splats[i].center[a],
                                   cropped.bounds.min[a].v,
                                   cropped.bounds.max[a].v - cropped.bounds.min[a].v,
                                   config.resolution[a])
    /\ SumSplatCount(grid.cells, MapSize(grid.cells)) = indexedSplats

C10_Witness ==
  /\ pc = "build.done" /\ ~IsDegenerateRaw(rawBounds)
  /\ MapSize(grid.cells) >= 2
  /\ \E k \in 1..MapSize(grid.cells) : grid.cells.val[k].splatCount >= 2
  /\ indexedSplats = MaxSplats

(***************************************************************************)
(* getCellAtWorldPos.  A squared distance is a fraction [n, d]; Infinity   *)
(* is the fraction 1/0, which cross-multiplication orders above all.       *)
(***************************************************************************)
Infinity == [n |-> 1, d |-> 0]
FracLess(a, b) == a.n * b.d < b.n * a.d

\* worldCenter.distanceToSquared(pos), worldCenter being sumPos / count
distanceToSquared(worldCenter, pos) ==
  LET diff(i) == worldCenter.n[i] - worldCenter.d * pos[i]
  IN [n |-> diff(1) * diff(1) + diff(2) * diff(2) + diff(3) * diff(3),
      d |-> worldCenter.d * worldCenter.d]

\* Math.min(cellSize.x, cellSize.y, cellSize.z)
MinFrac(a, b) == IF FracLess(b, a) THEN b ELSE a
minCellSize(cellSize) == MinFrac(MinFrac(cellSize[1], cellSize[2]), cellSize[3])

\* the three nested loops of one ring, lines 560-573: the cube lo..hi is
\* walked in x, y, z order; i counts the positions walked so far
RECURSIVE scanCube(_, _, _, _, _, _)
scanCube(grid_, pos, lo, hi, i, best) ==
  LET ny == hi[2] - lo[2] + 1
      nz == hi[3] - lo[3] + 1
      n == (hi[1] - lo[1] + 1) * ny * nz
  IN IF i >= n THEN best
     ELSE LET key == gridKey(lo[1] + (i \div (ny * nz)), lo[2] + ((i \div nz) % ny),
                             lo[3] + (i % nz))
          IN IF ~MapHas(grid_.cells, key)
             THEN scanCube(grid_, pos, lo, hi, i + 1, best)
             ELSE LET neighbor == MapGet(grid_.cells, key)
                      dist == distanceToSquared(neighbor.worldCenter, pos)
                  IN scanCube(grid_, pos, lo, hi, i + 1,
                              IF FracLess(dist, best.bestDist)
                              THEN [nearest |-> neighbor, bestDist |-> dist]
                              ELSE best)

CubeLo(c, r) == [a \in 1..3 |-> Max2(0, c[a] - r)]
CubeHi(c, r, resolution) == [a \in 1..3 |-> Min2(resolution[a] - 1, c[a] + r)]

\* a ring search that stops at the first ring holding a cell
RECURSIVE ringSearchFirstHit(_, _, _, _, _)
ringSearchFirstHit(grid_, pos, clamped, r, best) ==
  IF r > 5 \/ best.nearest # Null THEN best.nearest
  ELSE ringSearchFirstHit(grid_, pos, clamped, r + 1,
         scanCube(grid_, pos, CubeLo(clamped, r), CubeHi(clamped, r, grid_.resolution),
                  0, best))

\* a ring search capped one ring too early
RECURSIVE ringSearchShort(_, _, _, _, _)
ringSearchShort(grid_, pos, clamped, r, best) ==
  IF r > 4 THEN best.nearest
  ELSE ringSearchShort(grid_, pos, clamped, r + 1,
         scanCube(grid_, pos, CubeLo(clamped, r), CubeHi(clamped, r, grid_.resolution),
                  0, best))

\* the loop "for (let r = 1; r <= 5; r++)", lines 555-574
RECURSIVE ringSearch(_, _, _, _, _)
ringSearch(grid_, pos, clamped, r, best) ==
  IF r > 5 THEN best.nearest
  ELSE LET m == minCellSize(grid_.cellSize)
           minRingDist == [n |-> m.n * (r - 1), d |-> m.d]
           minRingDistSq == [n |-> minRingDist.n * minRingDist.n,
                             d |-> minRingDist.d * minRingDist.d]
       IN IF FracLess(best.bestDist, minRingDistSq)
          THEN best.nearest
          ELSE ringSearch(grid_, pos, clamped, r + 1,
                 scanCube(grid_, pos, CubeLo(clamped, r),
                          CubeHi(clamped, r, grid_.resolution), 0, best))

CellAt(grid_, coord) ==
  IF coord # Null /\ MapHas(grid_.cells, gridKey(coord[1], coord[2], coord[3]))
  THEN MapGet(grid_.cells, gridKey(coord[1], coord[2], coord[3]))
  ELSE Null

\* a lookup that goes by the nearest cell centre only
getCellAtWorldPosNearestOnly(grid_, pos) ==
  ringSearch(grid_, pos,
             worldPosToGridCoord(pos, grid_.worldBounds, grid_.resolution, TRUE), 0,
             [nearest |-> Null, bestDist |-> Infinity])

getCellAtWorldPos(grid_, pos) ==
  LET coord == worldPosToGridCoord(pos, grid_.worldBounds, grid_.resolution, FALSE)
      clamped == worldPosToGridCoord(pos, grid_.worldBounds, grid_.resolution, TRUE)
  IN IF CellAt(grid_, coord) # Null THEN CellAt(grid_, coord)
     ELSE IF clamped = Null THEN Null
     ELSE IF CellAt(grid_, clamped) # Null THEN CellAt(grid_, clamped)
     ELSE ringSearch(grid_, pos, clamped, 1, [nearest |-> Null, bestDist |-> Infinity])

(***************************************************************************)
(* getCellAtWorldPos on a built grid (SpecQuery).                          *)
(***************************************************************************)
QueryBoxes == {FinBox(<<0, 0, 0>>, <<32, 10, 4>>), FinBox(<<0, 0, 0>>, <<32, 0, 4>>)}
QueryOptions == [resolution |-> <<8, 2, 1>>, cropYFraction |-> <<1, 1>>]
QueryCenters ==
  {<<4, 2, 1>>, <<7, 8, 3>>, <<8, 2, 1>>, <<16, 2, 2>>, <<16, 8, 2>>, <<3, 9, 0>>}
QueryColor == <<40, 30, 20>>
QueryPoints == {-5, 2, 5, 7, 11, 12, 16, 30, 31, 40} \X {0, 2, 8} \X {2}

RECURSIVE SeqsUpTo(_, _)
SeqsUpTo(S, n) ==
  IF n = 0 THEN {<<>>}
  ELSE LET shorter == SeqsUpTo(S, n - 1)
       IN shorter \cup {Append(q, e) : q \in {t \in shorter : Len(t) = n - 1}, e \in S}

QueryMeshes ==
  SeqsUpTo({[center |-> c, color |-> QueryColor] : c \in QueryCenters}, MaxQuerySplats)

InitQuery ==
  /\ NoTraversal /\ NoSession
  /\ pc = "query.call"
  /\ rawBounds \in QueryBoxes
  /\ config = QueryOptions
  /\ splats \in QueryMeshes
  /\ isDegenerateBounds(rawBounds) => Len(splats) <= 1
  /\ grid = buildSpatialGrid(rawBounds, config, splats)
  /\ \E p \in QueryPoints : query = [pos |-> p]
  /\ cropped = None /\ accumulators = None
  /\ totalSplats = 0 /\ indexedSplats = 0 /\ answer = None

CallGetCellAtWorldPos ==
  /\ pc = "query.call"
  /\ answer' = getCellAtWorldPos(grid, query.pos)
  /\ pc' = "query.returned"
  /\ UNCHANGED <<traversal, session, rawBounds, config, cropped, accumulators, totalSplats,
                 indexedSplats, splats, grid, query>>

NextQuery == CallGetCellAtWorldPos

SpecQuery == InitQuery /\ [][NextQuery]_vars

(***************************************************************************)
(* Claims about getCellAtWorldPos (SpecQuery).                             *)
(***************************************************************************)
ClampTo(v, lo, hi) == IF v < lo THEN lo ELSE IF v > hi THEN hi ELSE v

\* The grid coordinate of pos clamped into the (finite, non-degenerate) bounds
\* of the grid: per axis the capped floor of normalized * resolution.
ClampedCoordOf(g, pos) ==
  [a \in 1..3 |->
     CHOOSE i \in 0..(g.resolution[a] - 1) :
       IsCappedFloorIndex(i, ClampTo(pos[a], g.worldBounds.min[a].v, g.worldBounds.max[a].v),
                          g.worldBounds.min[a].v,
                          g.worldBounds.max[a].v - g.worldBounds.min[a].v,
                          g.resolution[a])]

Abs(v) == IF v < 0 THEN -v ELSE v
Chebyshev(c1, c2) ==
  Max2(Abs(c1[1] - c2[1]), Max2(Abs(c1[2] - c2[2]), Abs(c1[3] - c2[3])))

WithinRings(g, pos) ==
  {k \in 1..MapSize(g.cells) :
     Chebyshev(g.cells.val[k].gridPos, ClampedCoordOf(g, pos)) <= 5}

DistOf(g, k, pos) == distanceToSquared(g.cells.val[k].worldCenter, pos)

ClampedCellEmpty(g, pos) ==
  LET c == ClampedCoordOf(g, pos) IN ~MapHas(g.cells, <<c[1], c[2], c[3]>>)

\* C3: when neither the exact cell nor the clamped cell of the query point is
\* occupied, getCellAtWorldPos returns, among all occupied cells within
\* Chebyshev grid distance 5 of the clamped cell, one whose worldCenter has the
\* minimum Euclidean distance to the query point; it returns null exactly when
\* no occupied cell lies within that distance.
C3_NearestWithinRings ==
  (pc = "query.returned" /\ ~IsDegenerateRaw(grid.worldBounds)
     /\ ClampedCellEmpty(grid, query.pos)) =>
    /\ (answer = Null) <=> (WithinRings(grid, query.pos) = {})
    /\ answer # Null =>
         \E k \in WithinRings(grid, query.pos) :
           /\ answer = grid.cells.val[k]
           /\ \A j \in WithinRings(grid, query.pos) :
                ~FracLess(DistOf(grid, j, query.pos), DistOf(grid, k, query.pos))

\* a farther ring holds the closer cell
C3_Witness ==
  /\ pc = "query.returned" /\ ~IsDegenerateRaw(grid.worldBounds)
  /\ ClampedCellEmpty(grid, query.pos)
  /\ answer # Null
  /\ \E j \in WithinRings(grid, query.pos) :
       /\ Chebyshev(grid.cells.val[j].gridPos, ClampedCoordOf(grid, query.pos))
            < Chebyshev(answer.gridPos, ClampedCoordOf(grid, query.pos))
       /\ FracLess(distanceToSquared(answer.worldCenter, query.pos),
                   DistOf(grid, j, query.pos))

\* no occupied cell within the capped distance although the grid has cells
C3_NullReached ==
  /\ pc = "query.returned" /\ ~IsDegenerateRaw(grid.worldBounds)
  /\ MapSize(grid.cells) > 0 /\ answer = Null

StrictlyInside(b, pos) ==
  \A a \in 1..3 : b.min[a].v < pos[a] /\ pos[a] < b.max[a].v

\* C4 as claimed: for all points strictly inside the grid's cropped bounds
\* (of a grid that holds cells), getCellAtWorldPos returns a cell whose gridPos
\* equals the grid coordinate computed for that point.
C4_InteriorPointGetsItsCell ==
  (pc = "query.returned" /\ ~IsDegenerateRaw(grid.worldBounds)
     /\ MapSize(grid.cells) > 0
     /\ StrictlyInside(grid.worldBounds, query.pos)) =>
    /\ answer # Null
    /\ answer.gridPos = ClampedCoordOf(grid, query.pos)

\* C4 as amended: for all points strictly inside the grid's cropped bounds
\* whose grid cell is occupied, getCellAtWorldPos returns that cell, the one
\* whose gridPos equals the grid coordinate computed for the point.
C4_InteriorPointInOccupiedCell ==
  (pc = "query.returned" /\ ~IsDegenerateRaw(grid.worldBounds)
     /\ StrictlyInside(grid.worldBounds, query.pos)
     /\ ~ClampedCellEmpty(grid, query.pos)) =>
    /\ answer # Null
    /\ answer.gridPos = ClampedCoordOf(grid, query.pos)
    /\ answer = MapGet(grid.cells, ClampedCoordOf(grid, query.pos))

\* the point's own cell is returned although another cell's centre is nearer
C4_Witness ==
  /\ pc = "query.returned" /\ ~IsDegenerateRaw(grid.worldBounds)
  /\ StrictlyInside(grid.worldBounds, query.pos)
  /\ ~ClampedCellEmpty(grid, query.pos)
  /\ answer # Null
  /\ answer.gridPos = ClampedCoordOf(grid, query.pos)
  /\ \E j \in 1..MapSize(grid.cells) :
       FracLess(DistOf(grid, j, query.pos), distanceToSquared(answer.worldCenter, query.pos))

(***************************************************************************)
(* generateManifest (scene-manifest): labelling of the cells.              *)
(***************************************************************************)
MIN_SPLATS_FOR_LABEL == 10

Frac(n, d) == [n |-> n, d |-> d]
FracLeq(a, b) == a.n * b.d <= b.n * a.d
FracAdd(a, b) ==
  IF a.d = b.d THEN Frac(a.n + b.n, a.d) ELSE Frac(a.n * b.d + b.n * a.d, a.d * b.d)

Max3(a, b, c) == Max2(Max2(a, b), c)
Min3(a, b, c) == Min2(Min2(a, b), c)

\* THREE.Color.getHSL of a colour kept as sums n over count d (hundredths):
\* h in turns, s and l in 0..1, all exact
getHSL(color) ==
  LET r == color.n[1]
      g == color.n[2]
      b == color.n[3]
      one == color.d * ColorDen
      max == Max3(r, g, b)
      min == Min3(r, g, b)
      delta == max - min
      lightness == Frac(min + max, 2 * one)
  IN IF min = max
     THEN [h |-> Frac(0, 1), s |-> Frac(0, 1), l |-> lightness]
     ELSE [h |-> IF max = r THEN Frac((g - b) + (IF g < b THEN 6 * delta ELSE 0), 6 * delta)
                 ELSE IF max = g THEN Frac((b - r) + 2 * delta, 6 * delta)
                 ELSE Frac((r - g) + 4 * delta, 6 * delta),
           s |-> IF min + max <= one THEN Frac(delta, max + min)
                 ELSE Frac(delta, 2 * one - max - min),
           l |-> lightness]

\* a rule list that asks for darkness before it asks for green
classifyCellDarkFirst(cell, yRange) ==
  LET hsl == getHSL(cell.avgColor)
      hue == Frac(360 * hsl.h.n, hsl.h.d)
      sat == hsl.s
      lum == hsl.l
      normalizedY ==
        IF XLess(Fin(0), yRange.height)
        THEN Frac(cell.worldCenter.n[2] - cell.worldCenter.d * yRange.min.v,
                  cell.worldCenter.d * yRange.height.v)
        ELSE Frac(5, 10)
      isLow == FracLess(normalizedY, Frac(25, 100))
      isMid == FracLeq(Frac(25, 100), normalizedY) /\ FracLess(normalizedY, Frac(70, 100))
      isHigh == FracLeq(Frac(70, 100), normalizedY)
      isVertical ==
        100 * (cell.worldBounds.max[2].v - cell.worldBounds.min[2].v) > 4 * yRange.height.v
      variance == Frac(cell.colorVariance.n, cell.colorVariance.d * ColorDen * ColorDen)
      hueIn(lo, hi) == FracLeq(Frac(lo, 1), hue) /\ FracLeq(hue, Frac(hi, 1))
      above(x, hundredths) == FracLess(Frac(hundredths, 100), x)
      below(x, hundredths) == FracLess(x, Frac(hundredths, 100))
      is(label, hundredths) == [label |-> label, confidence |-> Frac(hundredths, 100)]
  IN IF isHigh /\ hueIn(180, 260) /\ above(sat, 15) THEN is("sky", 70)
     ELSE IF below(lum, 12) THEN is("shadow", 40)
     ELSE IF hueIn(80, 160) /\ above(sat, 10) /\ isMid THEN is("vegetation", 60)
     ELSE IF hueIn(80, 160) /\ above(sat, 10) /\ isLow THEN is("ground_vegetation", 50)
     ELSE IF above(variance, 2) /\ isVertical THEN is("structure", 50)
     ELSE IF isLow /\ below(sat, 15) /\ above(lum, 15) /\ below(lum, 65) THEN is("ground", 50)
     ELSE IF isLow /\ hueIn(20, 50) /\ above(sat, 10) /\ below(lum, 60) THEN is("ground", 45)
     ELSE IF ~isLow /\ below(sat, 12) /\ above(lum, 20) /\ below(lum, 70)
       THEN is("structure", 35)
     ELSE IF hueIn(0, 60) /\ above(sat, 15) /\ above(lum, 15) THEN is("warm_surface", 30)
     ELSE IF isHigh /\ above(lum, 70) THEN is("bright_area", 35)
     ELSE is("surface", 20)

classifyCell(cell, yRange) ==
  LET hsl == getHSL(cell.avgColor)
      hue == Frac(360 * hsl.h.n, hsl.h.d)
      sat == hsl.s
      lum == hsl.l
      normalizedY ==
        IF XLess(Fin(0), yRange.height)
        THEN Frac(cell.worldCenter.n[2] - cell.worldCenter.d * yRange.min.v,
                  cell.worldCenter.d * yRange.height.v)
        ELSE Frac(5, 10)
      isLow == FracLess(normalizedY, Frac(25, 100))
      isMid == FracLeq(Frac(25, 100), normalizedY) /\ FracLess(normalizedY, Frac(70, 100))
      isHigh == FracLeq(Frac(70, 100), normalizedY)
      isVertical ==
        100 * (cell.worldBounds.max[2].v - cell.worldBounds.min[2].v) > 4 * yRange.height.v
      variance == Frac(cell.colorVariance.n, cell.colorVariance.d * ColorDen * ColorDen)
      hueIn(lo, hi) == FracLeq(Frac(lo, 1), hue) /\ FracLeq(hue, Frac(hi, 1))
      above(x, hundredths) == FracLess(Frac(hundredths, 100), x)
      below(x, hundredths) == FracLess(x, Frac(hundredths, 100))
      is(label, hundredths) == [label |-> label, confidence |-> Frac(hundredths, 100)]
  IN IF isHigh /\ hueIn(180, 260) /\ above(sat, 15) THEN is("sky", 70)
     ELSE IF hueIn(80, 160) /\ above(sat, 10) /\ isMid THEN is("vegetation", 60)
     ELSE IF hueIn(80, 160) /\ above(sat, 10) /\ isLow THEN is("ground_vegetation", 50)
     ELSE IF below(lum, 12) THEN is("shadow", 40)
     ELSE IF above(variance, 2) /\ isVertical THEN is("structure", 50)
     ELSE IF isLow /\ below(sat, 15) /\ above(lum, 15) /\ below(lum, 65) THEN is("ground", 50)
     ELSE IF isLow /\ hueIn(20, 50) /\ above(sat, 10) /\ below(lum, 60) THEN is("ground", 45)
     ELSE IF ~isLow /\ below(sat, 12) /\ above(lum, 20) /\ below(lum, 70)
       THEN is("structure", 35)
     ELSE IF hueIn(0, 60) /\ above(sat, 15) /\ above(lum, 15) THEN is("warm_surface", 30)
     ELSE IF isHigh /\ above(lum, 70) THEN is("bright_area", 35)
     ELSE is("surface", 20)

\* lines 16-18
yRangeOf(grid_) ==
  [min |-> grid_.worldBounds.min[2], max |-> grid_.worldBounds.max[2],
   height |-> getSize(grid_.worldBounds)[2]]

\* a labelling that leaves the point count of a cell out of account
RECURSIVE labelCellsAll(_, _, _)
labelCellsAll(grid_, i, labels) ==
  IF i > MapSize(grid_.cells) THEN labels
  ELSE labelCellsAll(grid_, i + 1,
         MapSet(labels, grid_.cells.order[i],
                classifyCell(grid_.cells.val[i], yRangeOf(grid_))))

\* the loop of lines 20-24 from the i-th cell of grid.cells on
RECURSIVE labelCells(_, _, _)
labelCells(grid_, i, labels) ==
  IF i > MapSize(grid_.cells) THEN labels
  ELSE IF grid_.cells.val[i].splatCount < MIN_SPLATS_FOR_LABEL
       THEN labelCells(grid_, i + 1, labels)
       ELSE labelCells(grid_, i + 1,
              MapSet(labels, grid_.cells.order[i],
                     classifyCell(grid_.cells.val[i], yRangeOf(grid_))))

(***************************************************************************)
(* buildRegions and floodFill.                                             *)
(***************************************************************************)
\* a flood fill that takes any labelled cell, whatever its label
labelMatchesAny(labels, key, targetLabel) == MapHas(labels, key)

\* line 221-222: the popped cell is labelled and its label is the target's
labelMatches(labels, key, targetLabel) ==
  MapHas(labels, key) /\ MapGet(labels, key).label = targetLabel

\* lines 234-238
faceNeighbors(gridPos) ==
  <<<<gridPos[1] - 1, gridPos[2], gridPos[3]>>, <<gridPos[1] + 1, gridPos[2], gridPos[3]>>,
    <<gridPos[1], gridPos[2] - 1, gridPos[3]>>, <<gridPos[1], gridPos[2] + 1, gridPos[3]>>,
    <<gridPos[1], gridPos[2], gridPos[3] - 1>>, <<gridPos[1], gridPos[2], gridPos[3] + 1>>>>

inResolution(n, resolution) ==
  \A a \in 1..3 : ~(n[a] < 0) /\ ~(n[a] >= resolution[a])

\* lines 240-246: the neighbours pushed on the work list, from the i-th on
RECURSIVE pushNeighbors(_, _, _, _, _, _)
pushNeighbors(resolution, labels, visited_, neighbors, i, queue_) ==
  IF i > Len(neighbors) THEN queue_
  ELSE LET n == neighbors[i]
           nKey == gridKey(n[1], n[2], n[3])
       IN pushNeighbors(resolution, labels, visited_, neighbors, i + 1,
            IF inResolution(n, resolution) /\ nKey \notin visited_ /\ MapHas(labels, nKey)
            THEN Append(queue_, nKey) ELSE queue_)

\* sums that add the average colour of a member without its weight
RECURSIVE regionSumsUnweighted(_, _, _, _, _)
regionSumsUnweighted(grid_, labels, component_, i, acc) ==
  IF i > Len(component_) THEN acc
  ELSE LET cell == MapGet(grid_.cells, component_[i])
       IN regionSumsUnweighted(grid_, labels, component_, i + 1,
            [bounds |-> expandByPoint(expandByPoint(acc.bounds, cell.worldBounds.min),
                                      cell.worldBounds.max),
             colorSum |-> VecAdd(acc.colorSum,
                                 [a \in 1..3 |-> cell.avgColor.n[a] \div cell.avgColor.d]),
             totalSplats |-> acc.totalSplats + 1,
             confidenceSum |->
               FracAdd(acc.confidenceSum, MapGet(labels, component_[i]).confidence)])

\* lines 159-175: the sums over the members of a component, from the i-th on
RECURSIVE regionSums(_, _, _, _, _)
regionSums(grid_, labels, component_, i, acc) ==
  IF i > Len(component_) THEN acc
  ELSE LET cellKey == component_[i]
       IN IF ~MapHas(grid_.cells, cellKey)
          THEN regionSums(grid_, labels, component_, i + 1, acc)
          ELSE LET cell == MapGet(grid_.cells, cellKey)
                   \* avgColor * splatCount: avgColor is sumColor / splatCount
                   weighted == [a \in 1..3 |->
                                  (cell.avgColor.n[a] * cell.splatCount) \div cell.avgColor.d]
               IN regionSums(grid_, labels, component_, i + 1,
                    [bounds |-> expandByPoint(expandByPoint(acc.bounds, cell.worldBounds.min),
                                              cell.worldBounds.max),
                     colorSum |-> VecAdd(acc.colorSum, weighted),
                     totalSplats |-> acc.totalSplats + cell.splatCount,
                     confidenceSum |->
                       IF MapHas(labels, cellKey)
                       THEN FracAdd(acc.confidenceSum, MapGet(labels, cellKey).confidence)
                       ELSE acc.confidenceSum])

\* lines 159-190: the region made of a component
makeRegion(grid_, labels, label, component_) ==
  LET sums == regionSums(grid_, labels, component_, 1,
                [bounds |-> EmptyBox3, colorSum |-> <<0, 0, 0>>, totalSplats |-> 0,
                 confidenceSum |-> Frac(0, 100)])
  IN [label |-> label,
      gridCells |-> component_,
      estimatedBounds |-> sums.bounds,
      dominantColor |-> IF sums.totalSplats > 0 THEN Frac(sums.colorSum, sums.totalSplats)
                        ELSE Frac(<<0, 0, 0>>, 1),
      confidence |-> IF Len(component_) > 0
                     THEN Frac(sums.confidenceSum.n, sums.confidenceSum.d * Len(component_))
                     ELSE Frac(0, 1)]

\* lines 195-200: the points of a region
RECURSIVE regionSplats(_, _, _)
regionSplats(grid_, gridCells, i) ==
  IF i > Len(gridCells) THEN 0
  ELSE (IF MapHas(grid_.cells, gridCells[i])
        THEN MapGet(grid_.cells, gridCells[i]).splatCount ELSE 0)
       + regionSplats(grid_, gridCells, i + 1)

\* Array.prototype.sort with the comparator bSplats - aSplats: stable, larger
\* regions first.  insertRegion puts r behind every region that is not smaller.
\* a sort that puts a region before the regions of its own size
RECURSIVE insertRegionBeforeTies(_, _, _)
insertRegionBeforeTies(grid_, sorted, r) ==
  IF sorted = <<>> THEN <<r>>
  ELSE IF regionSplats(grid_, r.gridCells, 1) - regionSplats(grid_, Head(sorted).gridCells, 1) >= 0
       THEN <<r>> \o sorted
       ELSE <<Head(sorted)>> \o insertRegionBeforeTies(grid_, Tail(sorted), r)

RECURSIVE insertRegion(_, _, _)
insertRegion(grid_, sorted, r) ==
  IF sorted = <<>> THEN <<r>>
  ELSE IF regionSplats(grid_, r.gridCells, 1) - regionSplats(grid_, Head(sorted).gridCells, 1) > 0
       THEN <<r>> \o sorted
       ELSE <<Head(sorted)>> \o insertRegion(grid_, Tail(sorted), r)

RECURSIVE sortRegions(_, _, _)
sortRegions(grid_, regions_, i) ==
  IF i = 0 THEN <<>>
  ELSE insertRegion(grid_, sortRegions(grid_, regions_, i - 1), regions_[i])

\* lines 279-292
readableLabel(label) ==
  CASE label = "ground_vegetation" -> "ground vegetation"
    [] label = "ground" -> "ground/pavement"
    [] label = "structure" -> "structure/building"
    [] label = "warm_surface" -> "warm surface"
    [] label = "bright_area" -> "bright"
    [] OTHER -> label

\* lines 257-261: the count of regions per readable label, in the order the
\* labels are first met
RECURSIVE countLabels(_, _, _)
countLabels(regions_, i, counts) ==
  IF i > Len(regions_) THEN counts
  ELSE LET readable == readableLabel(regions_[i].label)
       IN countLabels(regions_, i + 1,
            MapSet(counts, readable,
                   (IF MapHas(counts, readable) THEN MapGet(counts, readable) ELSE 0) + 1))

\* the sentence of generateDescription, by its parts
generateDescription(regions_, totalCells) ==
  [counts |-> countLabels(regions_, 1, EmptyMap), totalCells |-> totalCells]

(***************************************************************************)
(* generateManifest on a built grid (SpecManifest).  A scene puts at most  *)
(* MaxRegionCells groups of points into six of the cells of a 2 x 2 x 2    *)
(* grid: ten green points, eleven grey ones, or nine green points (a cell  *)
(* too sparse to be labelled).                                             *)
(***************************************************************************)
ManifestBox == FinBox(<<0, 0, 0>>, <<4, 10, 4>>)
ManifestOptions == [resolution |-> <<2, 2, 2>>, cropYFraction |-> <<1, 1>>]
ManifestSlots ==
  <<<<1, 4, 1>>, <<3, 4, 1>>, <<1, 6, 1>>, <<3, 6, 1>>, <<1, 4, 3>>, <<3, 4, 3>>>>
Green == <<20, 60, 20>>
Grey == <<50, 50, 50>>
ManifestTemplates ==
  {[color |-> Green, count |-> MIN_SPLATS_FOR_LABEL],
   [color |-> Grey, count |-> MIN_SPLATS_FOR_LABEL + 1],
   [color |-> Green, count |-> MIN_SPLATS_FOR_LABEL - 1]}
NoPoints == [color |-> Grey, count |-> 0]

ManifestScenes ==
  {s \in [1..Len(ManifestSlots) -> ManifestTemplates \cup {NoPoints}] :
     Cardinality({i \in 1..Len(ManifestSlots) : s[i] # NoPoints}) <= MaxRegionCells}

\* the points of a scene in the order the mesh delivers them
RECURSIVE sceneMesh(_, _, _)
sceneMesh(slots, scene, i) ==
  IF i > Len(slots) THEN <<>>
  ELSE [k \in 1..scene[i].count |-> [center |-> slots[i], color |-> scene[i].color]]
       \o sceneMesh(slots, scene, i + 1)

InitManifest ==
  /\ NoTraversal /\ NoSession
  /\ pc = "manifest.start"
  /\ rawBounds = ManifestBox
  /\ config = ManifestOptions
  /\ \E scene \in ManifestScenes : splats = sceneMesh(ManifestSlots, scene, 1)
  /\ grid = buildSpatialGrid(rawBounds, config, splats)
  /\ cropped = None /\ accumulators = None
  /\ totalSplats = 0 /\ indexedSplats = 0 /\ query = None /\ answer = None

build == <<rawBounds, config, cropped, accumulators, totalSplats, indexedSplats,
           splats, grid, query>>

\* lines 15-24, and lines 150-151 of buildRegions
LabelCells ==
  /\ pc = "manifest.start"
  /\ cellLabels' = labelCells(grid, 1, EmptyMap)
  /\ visited' = {}
  /\ regions' = <<>>
  /\ cursor' = 1
  /\ pc' = "manifest.regions"
  /\ UNCHANGED <<build, session, answer, queue, component, accepted, rejectedCells, reasons,
                 seedKey>>

\* line 154: the labelled cell already belongs to a region
SkipVisitedCell ==
  /\ pc = "manifest.regions"
  /\ cursor <= MapSize(cellLabels)
  /\ cellLabels.order[cursor] \in visited
  /\ cursor' = cursor + 1
  /\ UNCHANGED <<build, session, answer, pc, cellLabels, visited, queue, component, regions,
                 accepted, rejectedCells, reasons, seedKey>>

\* lines 156, 214-215: floodFill is entered from the labelled cell
BeginFloodFill ==
  /\ pc = "manifest.regions"
  /\ cursor <= MapSize(cellLabels)
  /\ cellLabels.order[cursor] \notin visited
  /\ component' = <<>>
  /\ queue' = <<cellLabels.order[cursor]>>
  /\ pc' = "manifest.flood"
  /\ UNCHANGED <<build, session, answer, cellLabels, visited, cursor, regions,
                 accepted, rejectedCells, reasons, seedKey>>

targetLabel == cellLabels.val[cursor].label
popped == queue[Len(queue)]
afterPop == SubSeq(queue, 1, Len(queue) - 1)

\* a flood fill that takes a popped cell again though it was visited
FloodRevisit ==
  /\ pc = "manifest.flood" /\ Len(queue) > 0
  /\ popped \in visited
  /\ component' = Append(component, popped)
  /\ queue' = afterPop
  /\ UNCHANGED <<build, session, answer, pc, cellLabels, visited, cursor, regions,
                 accepted, rejectedCells, reasons, seedKey>>

\* lines 218-219: the popped cell was visited already
FloodSkipVisited ==
  /\ pc = "manifest.flood" /\ Len(queue) > 0
  /\ popped \in visited
  /\ queue' = afterPop
  /\ UNCHANGED <<build, session, answer, pc, cellLabels, visited, component, cursor, regions,
                 accepted, rejectedCells, reasons, seedKey>>

\* lines 221-222: the popped cell has another label
FloodSkipLabel ==
  /\ pc = "manifest.flood" /\ Len(queue) > 0
  /\ popped \notin visited
  /\ ~labelMatches(cellLabels, popped, targetLabel)
  /\ queue' = afterPop
  /\ UNCHANGED <<build, session, answer, pc, cellLabels, visited, component, cursor, regions,
                 accepted, rejectedCells, reasons, seedKey>>

\* lines 224-246: the popped cell joins the component
FloodAdmit ==
  /\ pc = "manifest.flood" /\ Len(queue) > 0
  /\ popped \notin visited
  /\ labelMatches(cellLabels, popped, targetLabel)
  /\ visited' = visited \cup {popped}
  /\ component' = Append(component, popped)
  /\ queue' = IF MapHas(grid.cells, popped)
              THEN pushNeighbors(grid.resolution, cellLabels, visited \cup {popped},
                                 faceNeighbors(MapGet(grid.cells, popped).gridPos), 1,
                                 afterPop)
              ELSE afterPop
  /\ UNCHANGED <<build, session, answer, pc, cellLabels, cursor, regions,
                 accepted, rejectedCells, reasons, seedKey>>

\* lines 157-190: floodFill has returned, the region is pushed
PushRegion ==
  /\ pc = "manifest.flood" /\ Len(queue) = 0
  /\ regions' = IF Len(component) = 0 THEN regions
                ELSE Append(regions, makeRegion(grid, cellLabels, targetLabel, component))
  /\ cursor' = cursor + 1
  /\ pc' = "manifest.regions"
  /\ UNCHANGED <<build, session, answer, cellLabels, visited, queue, component,
                 accepted, rejectedCells, reasons, seedKey>>

\* lines 194-204 and 28-40: the regions are sorted and the manifest returned
ReturnManifest ==
  /\ pc = "manifest.regions"
  /\ cursor > MapSize(cellLabels)
  /\ regions' = sortRegions(grid, regions, Len(regions))
  /\ answer' = [description |-> generateDescription(regions', MapSize(grid.cells)),
                regions |-> regions', grid |-> grid, screenshots |-> <<>>]
  /\ pc' = "manifest.done"
  /\ UNCHANGED <<build, session, cellLabels, visited, queue, component, cursor,
                 accepted, rejectedCells, reasons, seedKey>>

NextManifest ==
  \/ LabelCells
  \/ SkipVisitedCell
  \/ BeginFloodFill
  \/ FloodSkipVisited
  \/ FloodSkipLabel
  \/ FloodAdmit
  \/ PushRegion
  \/ ReturnManifest

SpecManifest == InitManifest /\ [][NextManifest]_vars

(***************************************************************************)
(* Claims about generateManifest (SpecManifest).                           *)
(***************************************************************************)
LabelledKeys == MapKeys(cellLabels)
LabelOf(k) == MapGet(cellLabels, k).label

\* the regions of the returned manifest that hold cell k
RegionsHolding(k) ==
  {r \in 1..Len(answer.regions) : k \in SeqElems(answer.regions[r].gridCells)}

\* two cells share a face: their indices differ by one on exactly one axis
FaceAdjacent(a, b) == Abs(a[1] - b[1]) + Abs(a[2] - b[2]) + Abs(a[3] - b[3]) = 1

\* the labelled cells reached from the set S by chains of face-adjacent cells
\* that all carry the given label
RECURSIVE SameLabelClosure(_, _)
SameLabelClosure(S, label) ==
  LET more == {k \in LabelledKeys \ S :
                 LabelOf(k) = label /\ \E s \in S : FaceAdjacent(s, k)}
  IN IF more = {} THEN S ELSE SameLabelClosure(S \cup more, label)

ChainLinked(a, b) ==
  LabelOf(a) = LabelOf(b) /\ b \in SameLabelClosure({a}, LabelOf(a))

\* C1: in the manifest generateManifest returns, every labelled cell lies in
\* exactly one region, regions hold labelled cells only, and two labelled cells
\* lie in the same region if and only if they carry the same label and are
\* linked by a chain of face-adjacent cells that all carry that label.
C1_RegionsAreLabelComponents ==
  pc = "manifest.done" =>
    /\ \A k \in LabelledKeys : Cardinality(RegionsHolding(k)) = 1
    /\ \A r \in 1..Len(answer.regions) :
         /\ SeqElems(answer.regions[r].gridCells) \subseteq LabelledKeys
         /\ Cardinality(SeqElems(answer.regions[r].gridCells))
              = Len(answer.regions[r].gridCells)
    /\ \A a, b \in LabelledKeys :
         (RegionsHolding(a) = RegionsHolding(b)) <=> ChainLinked(a, b)

\* a manifest with a region of two or more cells, two cells of one label in
\* different regions, and two face-adjacent cells of different labels
C1_Witness ==
  /\ pc = "manifest.done"
  /\ \E r \in 1..Len(answer.regions) : Len(answer.regions[r].gridCells) >= 2
  /\ \E a, b \in LabelledKeys :
       LabelOf(a) = LabelOf(b) /\ RegionsHolding(a) # RegionsHolding(b)
  /\ \E a, b \in LabelledKeys :
       LabelOf(a) # LabelOf(b) /\ FaceAdjacent(a, b)

(***************************************************************************)
(* buildLocalSelection (click-selection).  Thresholds and paddings are in  *)
(* hundredths, like the colours.                                           *)
(***************************************************************************)
DEFAULT_SELECTION_OPTIONS ==
  [colorDistanceThreshold |-> 32, maxVisitedCells |-> 180, maxDepth |-> 5,
   maxClusterCells |-> 120, minClusterCells |-> 2, boxPadding |-> 114]

RECURSIVE GCD(_, _)
GCD(a, b) == IF b = 0 THEN a ELSE GCD(b, a % b)
LCM(a, b) == (a * b) \div GCD(a, b)

\* Math.sqrt where the root is exact (the colours of the model differ in such
\* a way that every distance is); roots lie in 0..hi
Sqrt(n, hi) == CHOOSE r \in 0..hi : r * r = n

\* dr * dr + dg * dg + db * db of lines 237-240, over (a.d * b.d * ColorDen)^2
colorDistanceSq(a, b) ==
  LET diff(i) == a.n[i] * b.d - b.n[i] * a.d
  IN diff(1) * diff(1) + diff(2) * diff(2) + diff(3) * diff(3)

\* the squared distance, the square root left out
colorDistance3NoSqrt(a, b) ==
  Frac(colorDistanceSq(a, b), a.d * b.d * ColorDen * a.d * b.d * ColorDen)

\* the quotient is kept in lowest terms
colorDistance3(a, b) ==
  LET root == Sqrt(colorDistanceSq(a, b), 2 * a.d * b.d * ColorDen)
      common == GCD(a.d * b.d * ColorDen, root)
  IN Frac(root \div common, (a.d * b.d * ColorDen) \div common)

\* a colour test that compares the squared distance with the threshold
passColorNoSqrt(cell, seedColor_, config_) ==
  FracLeq(colorDistance3NoSqrt(cell.avgColor, seedColor_),
          Frac(config_.colorDistanceThreshold, ColorDen))

\* line 76
passColor(cell, seedColor_, config_) ==
  FracLeq(colorDistance3(cell.avgColor, seedColor_),
          Frac(config_.colorDistanceThreshold, ColorDen))

\* getFaceNeighbors, lines 211-234: the occupied face neighbours, from the
\* i-th candidate on
RECURSIVE getFaceNeighbors(_, _, _)
getFaceNeighbors(grid_, candidates, i) ==
  IF i > Len(candidates) THEN <<>>
  ELSE LET n == candidates[i]
       IN (IF inResolution(n, grid_.resolution)
              /\ MapHas(grid_.cells, gridKey(n[1], n[2], n[3]))
           THEN <<MapGet(grid_.cells, gridKey(n[1], n[2], n[3]))>> ELSE <<>>)
          \o getFaceNeighbors(grid_, candidates, i + 1)

\* lines 92-97: the neighbours put on the queue, from the i-th on
RECURSIVE enqueueNeighbors(_, _, _, _, _)
enqueueNeighbors(neighbors, visited_, depth, i, queue_) ==
  IF i > Len(neighbors) THEN queue_
  ELSE LET neighborKey == gridKey(neighbors[i].gridPos[1], neighbors[i].gridPos[2],
                                  neighbors[i].gridPos[3])
       IN enqueueNeighbors(neighbors, visited_, depth, i + 1,
            IF neighborKey \notin visited_
            THEN Append(queue_, [key |-> neighborKey, depth |-> depth + 1])
            ELSE queue_)

\* lines 243-245
clamp(value, min, max) == MinFrac(max, IF FracLess(value, min) THEN min ELSE value)

\* lines 108-120: the sums over the cluster cells, from the i-th on
RECURSIVE clusterSums(_, _, _, _)
clusterSums(clusterCells, seedColor, i, acc) ==
  IF i > Len(clusterCells) THEN acc
  ELSE LET cell == clusterCells[i]
           weight == Max2(1, cell.splatCount)
           \* worldCenter * weight: worldCenter is sumPos / splatCount
           scaled == [a \in 1..3 |-> (cell.worldCenter.n[a] * weight) \div cell.worldCenter.d]
       IN clusterSums(clusterCells, seedColor, i + 1,
            [clusterBounds |-> expandByPoint(expandByPoint(acc.clusterBounds,
                                                         cell.worldBounds.min),
                                             cell.worldBounds.max),
             weightedCenter |-> VecAdd(acc.weightedCenter, scaled),
             totalWeight |-> acc.totalWeight + weight,
             avgColorDistance |->
               FracAdd(acc.avgColorDistance, colorDistance3(cell.avgColor, seedColor))])

\* an ellipsoid whichever axis dominates
suggestShapeAnyAxis(size, center, boxPadding) ==
  LET half(a) == Frac(Max2(10, size[a] * boxPadding), 200)
      maxDim == Max3(size[1], size[2], size[3])
      minDim == Frac(Max2(Min3(size[1], size[2], size[3]) * 1000, 1), 1000)
      aspectRatio == Frac(maxDim * minDim.d, minDim.n)
  IN IF FracLess(aspectRatio, Frac(16, 10))
     THEN [type |-> "SPHERE", position |-> center,
           radius |-> Frac(Max2(30, (size[1] + size[2] + size[3]) * boxPadding), 600)]
     ELSE IF \E a \in 1..3 : \A b \in (1..3) \ {a} : size[a] * 10 > size[b] * 18
     THEN [type |-> "ELLIPSOID", position |-> center,
           scale |-> <<half(1), half(2), half(3)>>]
     ELSE [type |-> "BOX", position |-> center, scale |-> <<half(1), half(2), half(3)>>]

\* lines 127-156: the shape suggested for a cluster of the given size
suggestShape(size, center, boxPadding) ==
  LET half(a) == Frac(Max2(10, size[a] * boxPadding), 200)
      maxDim == Max3(size[1], size[2], size[3])
      minDim == Frac(Max2(Min3(size[1], size[2], size[3]) * 1000, 1), 1000)
      aspectRatio == Frac(maxDim * minDim.d, minDim.n)
  IN IF FracLess(aspectRatio, Frac(16, 10))
     THEN [type |-> "SPHERE", position |-> center,
           radius |-> Frac(Max2(30, (size[1] + size[2] + size[3]) * boxPadding), 600)]
     ELSE IF size[2] * 10 > size[1] * 18 /\ size[2] * 10 > size[3] * 18
     THEN [type |-> "ELLIPSOID", position |-> center,
           scale |-> <<half(1), half(2), half(3)>>]
     ELSE [type |-> "BOX", position |-> center, scale |-> <<half(1), half(2), half(3)>>]

\* lines 107-176: the result made of the accepted cells
makeSelection(seedKey_, seedColor, accepted_, visited_, rejectedCells_, reasons_, config_) ==
  LET clusterCells == accepted_.val
      sums == clusterSums(clusterCells, seedColor, 1,
                [clusterBounds |-> EmptyBox3, weightedCenter |-> <<0, 0, 0>>,
                 totalWeight |-> 0, avgColorDistance |-> Frac(0, ColorDen)])
      weightedCenter == IF sums.totalWeight > 0
                        THEN Frac(sums.weightedCenter, sums.totalWeight)
                        ELSE Frac(sums.weightedCenter, 1)
      avgColorDistance == Frac(sums.avgColorDistance.n,
                               sums.avgColorDistance.d * Max2(1, Len(clusterCells)))
      size == [a \in 1..3 |-> getSize(sums.clusterBounds)[a].v]
      threshold == Frac(Max2(1, config_.colorDistanceThreshold * ColorDen),
                        ColorDen * ColorDen)
      ratio == Frac(avgColorDistance.n * threshold.d, avgColorDistance.d * threshold.n)
  IN [seedCellKey |-> seedKey_,
      clusterCellKeys |-> accepted_.order,
      clusterBounds |-> sums.clusterBounds,
      clusterCenter |-> weightedCenter,
      suggestedShape |-> suggestShape(size, weightedCenter, config_.boxPadding),
      confidence |-> clamp(Frac(ratio.d - ratio.n, ratio.d), Frac(0, 1), Frac(1, 1)),
      diagnostics |-> [visitedCells |-> Cardinality(visited_),
                       rejectedCells |-> rejectedCells_,
                       reason |-> reasons_]]

(***************************************************************************)
(* buildLocalSelection on a built grid (SpecSelect).  A scene puts at most *)
(* MaxSelectCells single points of three colours into six of the cells of  *)
(* a 2 x 2 x 2 grid; Near lies within the default threshold of Base, Far   *)
(* does not, and Far lies within the threshold of Near.                    *)
(***************************************************************************)
Base == <<50, 50, 50>>
Near == <<70, 50, 50>>
Far == <<90, 50, 50>>
SelectTemplates == {[color |-> c, count |-> 1] : c \in {Base, Near, Far}}

SelectScenes ==
  {s \in [1..Len(ManifestSlots) -> SelectTemplates \cup {NoPoints}] :
     Cardinality({i \in 1..Len(ManifestSlots) : s[i] # NoPoints}) <= MaxSelectCells}

SelectClicks == {<<1, 4, 1>>, <<3, 6, 1>>}

SelectOptions ==
  {DEFAULT_SELECTION_OPTIONS,
   [DEFAULT_SELECTION_OPTIONS EXCEPT !.maxVisitedCells = 2],
   [DEFAULT_SELECTION_OPTIONS EXCEPT !.maxDepth = 1],
   [DEFAULT_SELECTION_OPTIONS EXCEPT !.maxClusterCells = 2, !.minClusterCells = 1],
   [DEFAULT_SELECTION_OPTIONS EXCEPT !.colorDistanceThreshold = 0, !.minClusterCells = 1]}

InitSelect ==
  /\ NoTraversal /\ NoSession
  /\ pc = "select.start"
  /\ rawBounds = ManifestBox
  /\ \E scene \in SelectScenes : splats = sceneMesh(ManifestSlots, scene, 1)
  /\ grid = buildSpatialGrid(rawBounds, ManifestOptions, splats)
  /\ config \in SelectOptions
  /\ \E click \in SelectClicks : query = [click |-> click]
  /\ cropped = None /\ accumulators = None
  /\ totalSplats = 0 /\ indexedSplats = 0 /\ answer = None

\* lines 49, 55-56
seedCell == getCellAtWorldPos(grid, query.click)
seedColor == MapGet(grid.cells, seedKey).avgColor

\* lines 50-53: no seed cell at the click
ReturnNoSeed ==
  /\ pc = "select.start"
  /\ seedCell = Null
  /\ answer' = Null
  /\ pc' = "select.done"
  /\ UNCHANGED <<build, session, traversal>>

\* lines 55-61
BeginSelection ==
  /\ pc = "select.start"
  /\ seedCell # Null
  /\ seedKey' = gridKey(seedCell.gridPos[1], seedCell.gridPos[2], seedCell.gridPos[3])
  /\ queue' = <<[key |-> seedKey', depth |-> 0]>>
  /\ visited' = {}
  /\ accepted' = EmptyMap
  /\ rejectedCells' = 0
  /\ reasons' = <<>>
  /\ pc' = "select.grow"
  /\ UNCHANGED <<build, session, answer, cellLabels, component, cursor, regions>>

\* line 64: queue.shift(); the cell of an item is the grid's cell of its key
current == Head(queue)
currentCell == MapGet(grid.cells, current.key)
forceSeed == current.key = seedKey

\* lines 65-67
GrowSkipVisited ==
  /\ pc = "select.grow" /\ Len(queue) > 0
  /\ current.key \in visited
  /\ queue' = Tail(queue)
  /\ UNCHANGED <<build, session, answer, pc, cellLabels, visited, component, cursor, regions,
                 accepted, rejectedCells, reasons, seedKey>>

\* lines 68-73: the visit that exceeds maxVisitedCells ends the growth
GrowStopVisited ==
  /\ pc = "select.grow" /\ Len(queue) > 0
  /\ current.key \notin visited
  /\ Cardinality(visited \cup {current.key}) > config.maxVisitedCells
  /\ queue' = Tail(queue)
  /\ visited' = visited \cup {current.key}
  /\ reasons' = Append(reasons, "maxVisitedCells")
  /\ pc' = "select.finish"
  /\ UNCHANGED <<build, session, answer, cellLabels, component, cursor, regions,
                 accepted, rejectedCells, seedKey>>

\* lines 75-81: a cell too far from the seed colour is rejected
GrowReject ==
  /\ pc = "select.grow" /\ Len(queue) > 0
  /\ current.key \notin visited
  /\ ~(Cardinality(visited \cup {current.key}) > config.maxVisitedCells)
  /\ ~forceSeed /\ ~passColor(currentCell, seedColor, config)
  /\ queue' = Tail(queue)
  /\ visited' = visited \cup {current.key}
  /\ rejectedCells' = rejectedCells + 1
  /\ UNCHANGED <<build, session, answer, pc, cellLabels, component, cursor, regions,
                 accepted, reasons, seedKey>>

Admitted ==
  /\ pc = "select.grow" /\ Len(queue) > 0
  /\ current.key \notin visited
  /\ ~(Cardinality(visited \cup {current.key}) > config.maxVisitedCells)
  /\ forceSeed \/ passColor(currentCell, seedColor, config)

\* lines 83-87: the accepted cell fills the cluster
GrowStopCluster ==
  /\ Admitted
  /\ MapSize(MapSet(accepted, current.key, currentCell)) >= config.maxClusterCells
  /\ queue' = Tail(queue)
  /\ visited' = visited \cup {current.key}
  /\ accepted' = MapSet(accepted, current.key, currentCell)
  /\ reasons' = Append(reasons, "maxClusterCells")
  /\ pc' = "select.finish"
  /\ UNCHANGED <<build, session, answer, cellLabels, component, cursor, regions, rejectedCells,
                 seedKey>>

\* a growth that expands an accepted cell at the depth limit all the same
GrowPastMaxDepth ==
  /\ Admitted
  /\ ~(MapSize(MapSet(accepted, current.key, currentCell)) >= config.maxClusterCells)
  /\ current.depth >= config.maxDepth
  /\ visited' = visited \cup {current.key}
  /\ accepted' = MapSet(accepted, current.key, currentCell)
  /\ queue' = enqueueNeighbors(
                 getFaceNeighbors(grid, faceNeighbors(currentCell.gridPos), 1),
                 visited', current.depth, 1, Tail(queue))
  /\ UNCHANGED <<build, session, answer, pc, cellLabels, component, cursor, regions,
                 rejectedCells, reasons, seedKey>>

\* lines 89-91: the accepted cell lies at the depth limit
GrowAtMaxDepth ==
  /\ Admitted
  /\ ~(MapSize(MapSet(accepted, current.key, currentCell)) >= config.maxClusterCells)
  /\ current.depth >= config.maxDepth
  /\ queue' = Tail(queue)
  /\ visited' = visited \cup {current.key}
  /\ accepted' = MapSet(accepted, current.key, currentCell)
  /\ UNCHANGED <<build, session, answer, pc, cellLabels, component, cursor, regions,
                 rejectedCells, reasons, seedKey>>

\* lines 92-97: the accepted cell is expanded
GrowExpand ==
  /\ Admitted
  /\ ~(MapSize(MapSet(accepted, current.key, currentCell)) >= config.maxClusterCells)
  /\ ~(current.depth >= config.maxDepth)
  /\ visited' = visited \cup {current.key}
  /\ accepted' = MapSet(accepted, current.key, currentCell)
  /\ queue' = enqueueNeighbors(
                 getFaceNeighbors(grid, faceNeighbors(currentCell.gridPos), 1),
                 visited', current.depth, 1, Tail(queue))
  /\ UNCHANGED <<build, session, answer, pc, cellLabels, component, cursor, regions,
                 rejectedCells, reasons, seedKey>>

GrowthOver == (pc = "select.grow" /\ Len(queue) = 0) \/ pc = "select.finish"

\* a test that lets a cluster one cell short of the minimum pass
clusterTooSmallByTwo(accepted_, config_) ==
  MapSize(accepted_) + 1 < config_.minClusterCells

\* line 100
clusterTooSmall(accepted_, config_) ==
  MapSize(accepted_) < config_.minClusterCells

\* lines 100-105: the cluster is too small
ReturnTooSmall ==
  /\ GrowthOver
  /\ clusterTooSmall(accepted, config)
  /\ answer' = Null
  /\ pc' = "select.done"
  /\ UNCHANGED <<build, session, traversal>>

\* lines 107-181
ReturnSelection ==
  /\ GrowthOver
  /\ ~clusterTooSmall(accepted, config)
  /\ answer' = makeSelection(seedKey, seedColor, accepted, visited, rejectedCells,
                             reasons, config)
  /\ pc' = "select.done"
  /\ UNCHANGED <<build, session, traversal>>

NextSelect ==
  \/ ReturnNoSeed
  \/ BeginSelection
  \/ GrowSkipVisited
  \/ GrowStopVisited
  \/ GrowReject
  \/ GrowStopCluster
  \/ GrowAtMaxDepth
  \/ GrowExpand
  \/ ReturnTooSmall
  \/ ReturnSelection

SpecSelect == InitSelect /\ [][NextSelect]_vars

(***************************************************************************)
(* Claims about buildLocalSelection (SpecSelect).                          *)
(***************************************************************************)
\* The Euclidean RGB distance of the average colours of cells a and b is at
\* most the threshold (in hundredths); compared by squares, without the root.
WithinThreshold(a, b, threshold) ==
  /\ threshold >= 0
  /\ colorDistanceSq(a.avgColor, b.avgColor)
       <= threshold * threshold * a.avgColor.d * a.avgColor.d
            * b.avgColor.d * b.avgColor.d

SeedOrSimilar(k) ==
  k = seedKey \/ WithinThreshold(MapGet(grid.cells, k), MapGet(grid.cells, seedKey),
                                 config.colorDistanceThreshold)

\* the step puts neighbours of the cell taken from the queue on the queue
ExpandsCurrent ==
  /\ pc = "select.grow" /\ Len(queue) > 0
  /\ Len(queue') >= Len(queue)

floor(x) == x.n \div x.d

\* the three nested loops of lines 589-598: the cube lo..hi is walked in
\* x, y, z order; i counts the positions walked so far
RECURSIVE collectCube(_, _, _, _, _)
collectCube(grid_, lo, hi, i, out) ==
  LET ny == Max2(0, hi[2] - lo[2] + 1)
      nz == Max2(0, hi[3] - lo[3] + 1)
      n == Max2(0, hi[1] - lo[1] + 1) * ny * nz
  IN IF i >= n THEN out
     ELSE LET key == gridKey(lo[1] + (i \div (ny * nz)), lo[2] + ((i \div nz) % ny),
                             lo[3] + (i % nz))
          IN collectCube(grid_, lo, hi, i + 1,
                         IF MapHas(grid_.cells, key)
                         THEN Append(out, MapGet(grid_.cells, key)) ELSE out)

\* a radius that is not held at zero from below
getNeighborCellsUnclamped(grid_, cell, radius) ==
  collectCube(grid_, CubeLo(cell.gridPos, floor(radius)),
              CubeHi(cell.gridPos, floor(radius), grid_.resolution), 0, <<>>)

getNeighborCells(grid_, cell, radius) ==
  LET r == Max2(0, floor(radius))
  IN collectCube(grid_, CubeLo(cell.gridPos, r),
                 CubeHi(cell.gridPos, r, grid_.resolution), 0, <<>>)

(***************************************************************************)
(* getNeighborCells on a built grid (SpecNeighbors): up to                 *)
(* MaxNeighborSplats points in a 4 x 3 x 2 grid, the cell one of the       *)
(* grid's cells.                                                           *)
(***************************************************************************)
NeighborBox == FinBox(<<0, 0, 0>>, <<8, 6, 4>>)
NeighborOptions == [resolution |-> <<4, 3, 2>>, cropYFraction |-> <<0, 0>>]
NeighborCenters ==
  {<<1, 1, 1>>, <<3, 1, 1>>, <<3, 3, 3>>, <<5, 5, 1>>, <<7, 1, 3>>, <<1, 5, 3>>}
NeighborRadii == {Frac(-1, 1), Frac(-1, 2), Frac(0, 1), Frac(1, 2), Frac(1, 1),
                  Frac(3, 2), Frac(2, 1), Frac(10, 1)}
NeighborMeshes ==
  SeqsUpTo({[center |-> c, color |-> QueryColor] : c \in NeighborCenters},
           MaxNeighborSplats)

InitNeighbors ==
  /\ NoTraversal /\ NoSession
  /\ pc = "neighbors.call"
  /\ rawBounds = NeighborBox
  /\ config = NeighborOptions
  /\ splats \in NeighborMeshes
  /\ grid = buildSpatialGrid(rawBounds, config, splats)
  /\ \E i \in 1..MapSize(grid.cells), radius \in NeighborRadii :
       query = [cell |-> grid.cells.val[i], radius |-> radius]
  /\ cropped = None /\ accumulators = None
  /\ totalSplats = 0 /\ indexedSplats = 0 /\ answer = None

CallGetNeighborCells ==
  /\ pc = "neighbors.call"
  /\ answer' = getNeighborCells(grid, query.cell, query.radius)
  /\ pc' = "neighbors.returned"
  /\ UNCHANGED <<build, session, traversal>>

NextNeighbors == CallGetNeighborCells

SpecNeighbors == InitNeighbors /\ [][NextNeighbors]_vars

(***************************************************************************)
(* Claims about getNeighborCells (SpecNeighbors).                          *)
(***************************************************************************)
\* the whole number f with f <= x < f + 1, held at zero from below
FloorOrZero(x) ==
  LET f == CHOOSE f \in -(Abs(x.n) + 1)..(Abs(x.n) + 1) :
             f * x.d <= x.n /\ x.n < (f + 1) * x.d
  IN IF f < 0 THEN 0 ELSE f

\* the keys of the occupied cells within the window of the query
WindowKeys ==
  {k \in MapKeys(grid.cells) :
     \A a \in 1..3 : /\ Abs(k[a] - query.cell.gridPos[a]) <= FloorOrZero(query.radius)
                     /\ k[a] >= 0 /\ k[a] < grid.resolution[a]}

\* C11: getNeighborCells returns exactly the occupied cells whose index
\* differs from the given cell's by at most floor(radius) (zero for a radius
\* below zero) on every axis, each once and as the grid holds it, the given
\* cell among them; for a radius below one the given cell only.
C11_NeighborsAreTheOccupiedWindow ==
  pc = "neighbors.returned" =>
    /\ {answer[i].gridPos : i \in 1..Len(answer)} = WindowKeys
    /\ Len(answer) = Cardinality(WindowKeys)
    /\ \A i \in 1..Len(answer) : answer[i] = MapGet(grid.cells, answer[i].gridPos)
    /\ \E i \in 1..Len(answer) : answer[i] = query.cell
    /\ FracLess(query.radius, Frac(1, 1)) => answer = <<query.cell>>

\* a window of radius one that holds a neighbour and leaves an occupied cell out
C11_Witness ==
  /\ pc = "neighbors.returned"
  /\ floor(query.radius) = 1
  /\ Len(answer) >= 2
  /\ Len(answer) < MapSize(grid.cells)

\* a radius below zero answered with the cell itself
C11_NegativeRadius ==
  /\ pc = "neighbors.returned"
  /\ query.radius.n < 0
  /\ Len(answer) = 1

(***************************************************************************)
(* Further claims about generateManifest (SpecManifest).                   *)
(***************************************************************************)
RECURSIVE SeqSum(_)
SeqSum(q) == IF q = <<>> THEN 0 ELSE Head(q) + SeqSum(Tail(q))

MinOf(S) == CHOOSE x \in S : \A y \in S : x <= y
MaxOf(S) == CHOOSE x \in S : \A y \in S : y <= x

SparseKeys ==
  {k \in MapKeys(grid.cells) : MapGet(grid.cells, k).splatCount < 10}
DenseKeys == MapKeys(grid.cells) \ SparseKeys

\* the cells of the i-th region of the returned manifest, in its order
MemberCells(r) ==
  [i \in 1..Len(answer.regions[r].gridCells) |->
     MapGet(grid.cells, answer.regions[r].gridCells[i])]

\* the smallest box around the bounds of the given cells
HullOf(cells) ==
  FinBox([a \in 1..3 |-> MinOf({cells[i].worldBounds.min[a].v : i \in 1..Len(cells)})],
         [a \in 1..3 |-> MaxOf({cells[i].worldBounds.max[a].v : i \in 1..Len(cells)})])

\* the cells reached from the set S by chains of face-adjacent cells of ten
\* points or more
RECURSIVE DenseClosure(_)
DenseClosure(S) ==
  LET more == {k \in DenseKeys \ S : \E s \in S : FaceAdjacent(s, k)}
  IN IF more = {} THEN S ELSE DenseClosure(S \cup more)

\* C12: a cell of fewer than 10 points gets no label and is a member of no
\* region; the bounds, colour sums, point total and confidence of every region
\* are those of its member cells alone, all of ten points or more; and two
\* cells of one region are linked by a chain of face-adjacent cells of ten
\* points or more, so a sparse cell never connects regions.
C12_SparseCellsExcluded ==
  pc = "manifest.done" =>
    /\ \A k \in SparseKeys : k \notin MapKeys(cellLabels) /\ RegionsHolding(k) = {}
    /\ \A r \in 1..Len(answer.regions) :
         LET cells == MemberCells(r)
             region == answer.regions[r]
         IN /\ SeqElems(region.gridCells) \subseteq DenseKeys
            /\ region.estimatedBounds = HullOf(cells)
            /\ region.dominantColor.d = SeqSum([i \in 1..Len(cells) |-> cells[i].splatCount])
            /\ \A c \in 1..3 :
                 region.dominantColor.n[c]
                   = SeqSum([i \in 1..Len(cells) |-> cells[i].avgColor.n[c]])
            /\ region.confidence.n * 100 * Len(cells)
                 = region.confidence.d
                     * SeqSum([i \in 1..Len(cells) |->
                                 MapGet(cellLabels, region.gridCells[i]).confidence.n])
            /\ \A a, b \in SeqElems(region.gridCells) : b \in DenseClosure({a})

\* two cells of one label in different regions, both next to the same sparse cell
C12_Witness ==
  /\ pc = "manifest.done"
  /\ \E a, b \in LabelledKeys, s \in SparseKeys :
       /\ a # b /\ LabelOf(a) = LabelOf(b)
       /\ RegionsHolding(a) # RegionsHolding(b)
       /\ FaceAdjacent(a, s) /\ FaceAdjacent(s, b)

(***************************************************************************)
(* classifyCell on the cells of a built grid (SpecClassify): one cell of   *)
(* 2 * HalfCellPoints points, half of them of one colour and height, half  *)
(* of another, in a grid of a single cell 10 high.                         *)
(***************************************************************************)
ClassifyBox == FinBox(<<0, 0, 0>>, <<4, 10, 4>>)
ClassifyOptions == [resolution |-> <<1, 1, 1>>, cropYFraction |-> <<0, 0>>]
ClassifyColors ==
  {<<30, 50, 90>>, <<20, 60, 20>>, <<2, 10, 2>>, <<5, 5, 5>>, <<50, 50, 50>>,
   <<50, 35, 20>>, <<90, 40, 10>>, <<95, 95, 95>>, <<60, 20, 70>>}
ClassifyHeights == {1, 2, 3, 5, 7, 9}
ClassifyPoints ==
  {[center |-> <<2, y, 2>>, color |-> c] : y \in ClassifyHeights, c \in ClassifyColors}

InitClassify ==
  /\ NoTraversal /\ NoSession
  /\ pc = "classify.start"
  /\ rawBounds = ClassifyBox
  /\ config = ClassifyOptions
  /\ \E a, b \in ClassifyPoints :
       splats = [i \in 1..(2 * HalfCellPoints) |-> IF i <= HalfCellPoints THEN a ELSE b]
  /\ grid = buildSpatialGrid(rawBounds, config, splats)
  /\ cropped = None /\ accumulators = None
  /\ totalSplats = 0 /\ indexedSplats = 0 /\ query = None /\ answer = None

\* lines 15-24 of generateManifest: every cell of ten points or more is classified
ClassifyCells ==
  /\ pc = "classify.start"
  /\ cellLabels' = labelCells(grid, 1, EmptyMap)
  /\ pc' = "classify.done"
  /\ UNCHANGED <<build, session, answer, visited, queue, component, cursor, regions,
                 accepted, rejectedCells, reasons, seedKey>>

NextClassify == ClassifyCells

SpecClassify == InitClassify /\ [][NextClassify]_vars

(***************************************************************************)
(* Claims about classifyCell (SpecClassify).                               *)
(***************************************************************************)
TheCell == grid.cells.val[1]
TheLabel == cellLabels.val[1].label

\* hue in degrees, saturation, luminance and colour variance of the cell, and
\* the height of its centre as a fraction of the grid's height
CellHue == Frac(360 * getHSL(TheCell.avgColor).h.n, getHSL(TheCell.avgColor).h.d)
CellSat == getHSL(TheCell.avgColor).s
CellLum == getHSL(TheCell.avgColor).l
CellVariance ==
  Frac(TheCell.colorVariance.n, TheCell.colorVariance.d * ColorDen * ColorDen)
CellHeight ==
  Frac(TheCell.worldCenter.n[2] - TheCell.worldCenter.d * grid.worldBounds.min[2].v,
       TheCell.worldCenter.d * (grid.worldBounds.max[2].v - grid.worldBounds.min[2].v))

Low == FracLess(CellHeight, Frac(1, 4))
Mid == ~FracLess(CellHeight, Frac(1, 4)) /\ FracLess(CellHeight, Frac(7, 10))
High == ~FracLess(CellHeight, Frac(7, 10))
Vertical ==
  25 * (TheCell.worldBounds.max[2].v - TheCell.worldBounds.min[2].v)
    > grid.worldBounds.max[2].v - grid.worldBounds.min[2].v
HueWithin(lo, hi) == ~FracLess(CellHue, Frac(lo, 1)) /\ ~FracLess(Frac(hi, 1), CellHue)
Greenish == HueWithin(80, 160) /\ FracLess(Frac(1, 10), CellSat)
Dark == FracLess(CellLum, Frac(12, 100))

\* the rule list in its fixed order: predicate and label
Rules ==
  << <<High /\ HueWithin(180, 260) /\ FracLess(Frac(15, 100), CellSat), "sky">>,
     <<Greenish /\ Mid, "vegetation">>,
     <<Greenish /\ Low, "ground_vegetation">>,
     <<Dark, "shadow">>,
     <<FracLess(Frac(2, 100), CellVariance) /\ Vertical, "structure">>,
     <<Low /\ FracLess(CellSat, Frac(15, 100)) /\ FracLess(Frac(15, 100), CellLum)
           /\ FracLess(CellLum, Frac(65, 100)), "ground">>,
     <<Low /\ HueWithin(20, 50) /\ FracLess(Frac(1, 10), CellSat)
           /\ FracLess(CellLum, Frac(6, 10)), "ground">>,
     <<~Low /\ FracLess(CellSat, Frac(12, 100)) /\ FracLess(Frac(2, 10), CellLum)
            /\ FracLess(CellLum, Frac(7, 10)), "structure">>,
     <<HueWithin(0, 60) /\ FracLess(Frac(15, 100), CellSat)
            /\ FracLess(Frac(15, 100), CellLum), "warm_surface">>,
     <<High /\ FracLess(Frac(7, 10), CellLum), "bright_area">>,
     <<TRUE, "surface">> >>

FirstRule == CHOOSE i \in 1..Len(Rules) : Rules[i][1] /\ \A j \in 1..(i - 1) : ~Rules[j][1]

LabelSet ==
  {"sky", "vegetation", "ground_vegetation", "shadow", "structure", "ground",
   "warm_surface", "bright_area", "surface"}

\* C13: every cell of ten points or more gets exactly one label, of the fixed
\* set: the label of the first rule of the fixed order whose predicate holds,
\* surface when none does; and its height is in exactly one of the bands low
\* (< 0.25), mid (0.25 to < 0.70), high (>= 0.70).
C13_FirstMatchingRuleWins ==
  pc = "classify.done" =>
    /\ MapSize(cellLabels) = 1 /\ MapKeys(cellLabels) = MapKeys(grid.cells)
    /\ TheLabel \in LabelSet
    /\ TheLabel = Rules[FirstRule][2]
    /\ Cardinality({band \in {"low", "mid", "high"} :
                      \/ band = "low" /\ Low
                      \/ band = "mid" /\ Mid
                      \/ band = "high" /\ High}) = 1

\* a green cell at mid height that is also very dark is labelled vegetation
C13_Witness ==
  /\ pc = "classify.done"
  /\ Greenish /\ Mid /\ Dark
  /\ TheLabel = "vegetation"

\* a green cell at mid height of high variance and vertical extent, and a cell
\* no rule matches
C13_VarianceWitness ==
  /\ pc = "classify.done"
  /\ Greenish /\ Mid /\ FracLess(Frac(2, 100), CellVariance) /\ Vertical
  /\ TheLabel = "vegetation"

C13_DefaultWitness == pc = "classify.done" /\ FirstRule = Len(Rules) /\ TheLabel = "surface"

\* the points of the r-th region of the returned manifest
RegionTotal(r) == SeqSum([i \in 1..Len(MemberCells(r)) |-> MemberCells(r)[i].splatCount])

\* the place in the scan of the labelled cells at which the r-th region was
\* met: the first place of any of its cells
PositionOf(k) == CHOOSE i \in 1..MapSize(cellLabels) : cellLabels.order[i] = k
DiscoveryOf(r) == MinOf({PositionOf(k) : k \in SeqElems(answer.regions[r].gridCells)})

\* C14: the regions of the returned manifest are ordered by their total point
\* count, larger first, and regions of equal totals in the order of discovery.
C14_RegionsSortedBySizeThenDiscovery ==
  pc = "manifest.done" =>
    \A r, s \in 1..Len(answer.regions) :
      r < s => \/ RegionTotal(r) > RegionTotal(s)
               \/ RegionTotal(r) = RegionTotal(s) /\ DiscoveryOf(r) < DiscoveryOf(s)

\* a manifest with two regions of equal totals, and a larger region put before
\* a region discovered earlier
C14_Witness ==
  /\ pc = "manifest.done"
  /\ \E r, s \in 1..Len(answer.regions) :
       r < s /\ RegionTotal(r) = RegionTotal(s)
  /\ \E r, s \in 1..Len(answer.regions) :
       r < s /\ RegionTotal(r) > RegionTotal(s) /\ DiscoveryOf(r) > DiscoveryOf(s)

(***************************************************************************)
(* generateManifest on grids whose regions mix cells of different colours  *)
(* and point counts (SpecRegionStats): the four cells of a square, each    *)
(* empty or filled after one of four templates.                            *)
(***************************************************************************)
LightGreen == <<30, 70, 30>>
StatsSlots == <<<<1, 4, 1>>, <<3, 4, 1>>, <<1, 6, 1>>, <<3, 6, 1>>>>

\* count points of one colour, dy above the centre of the slot
PointsOf(count, dy, color) == [k \in 1..count |-> [dy |-> dy, color |-> color]]

\* ten green points, twelve light green ones, eleven grey ones, or six white
\* points above six black ones (a grey cell of high variance and vertical extent)
StatsTemplates ==
  {PointsOf(MIN_SPLATS_FOR_LABEL, 0, Green),
   PointsOf(MIN_SPLATS_FOR_LABEL + 2, 0, LightGreen),
   PointsOf(MIN_SPLATS_FOR_LABEL + 1, 0, Grey),
   PointsOf(6, 0, <<90, 90, 90>>) \o PointsOf(6, -1, <<10, 10, 10>>)}

RECURSIVE statsMesh(_, _, _)
statsMesh(slots, scene, i) ==
  IF i > Len(slots) THEN <<>>
  ELSE [k \in 1..Len(scene[i]) |->
          [center |-> <<slots[i][1], slots[i][2] + scene[i][k].dy, slots[i][3]>>,
           color |-> scene[i][k].color]]
       \o statsMesh(slots, scene, i + 1)

InitRegionStats ==
  /\ NoTraversal /\ NoSession
  /\ pc = "manifest.start"
  /\ rawBounds = ManifestBox
  /\ config = ManifestOptions
  /\ \E scene \in [1..Len(StatsSlots) -> StatsTemplates \cup {<<>>}] :
       splats = statsMesh(StatsSlots, scene, 1)
  /\ grid = buildSpatialGrid(rawBounds, config, splats)
  /\ cropped = None /\ accumulators = None
  /\ totalSplats = 0 /\ indexedSplats = 0 /\ query = None /\ answer = None

SpecRegionStats == InitRegionStats /\ [][NextManifest]_vars

(***************************************************************************)
(* Claims about the statistics of a region (SpecRegionStats).              *)
(***************************************************************************)
RECURSIVE SeqLCM(_)
SeqLCM(q) == IF q = <<>> THEN 1 ELSE LCM(Head(q), SeqLCM(Tail(q)))

\* The point-count-weighted average of channel c of the members' average
\* colours, sum(avg_i * w_i) / sum(w_i), as a quotient: every avg_i is
\* brought to the common denominator of the members.
WeightedAverage(cells, c) ==
  LET common == SeqLCM([i \in 1..Len(cells) |-> cells[i].avgColor.d])
  IN Frac(SeqSum([i \in 1..Len(cells) |->
                    cells[i].avgColor.n[c] * (common \div cells[i].avgColor.d)
                      * cells[i].splatCount]),
          common * SeqSum([i \in 1..Len(cells) |-> cells[i].splatCount]))

\* the mean of the members' classification confidences
MeanConfidence(r) ==
  LET keys == answer.regions[r].gridCells
  IN Frac(SeqSum([i \in 1..Len(keys) |-> MapGet(cellLabels, keys[i]).confidence.n]),
          100 * Len(keys))

FracEq(a, b) == a.n * b.d = b.n * a.d

\* C15: the dominantColor of every region of the returned manifest is the
\* average of its member cells' average colours weighted by their point
\* counts, and its confidence is the plain mean of the members' confidences,
\* between 0 and 1.
C15_RegionColourAndConfidence ==
  pc = "manifest.done" =>
    \A r \in 1..Len(answer.regions) :
      LET region == answer.regions[r]
      IN /\ \A c \in 1..3 :
              FracEq(Frac(region.dominantColor.n[c], region.dominantColor.d),
                     WeightedAverage(MemberCells(r), c))
         /\ FracEq(region.confidence, MeanConfidence(r))
         /\ region.confidence.n >= 0 /\ region.confidence.n <= region.confidence.d

\* a region whose members differ in both colour and point count, and a region
\* whose members differ in confidence
C15_Witness ==
  /\ pc = "manifest.done"
  /\ \E r \in 1..Len(answer.regions) :
       \E k1, k2 \in SeqElems(answer.regions[r].gridCells) :
          MapGet(cellLabels, k1).confidence # MapGet(cellLabels, k2).confidence
  /\ \E r \in 1..Len(answer.regions) :
       \E i, j \in 1..Len(MemberCells(r)) :
          /\ MemberCells(r)[i].splatCount # MemberCells(r)[j].splatCount
          /\ ~FracEq(Frac(MemberCells(r)[i].avgColor.n[1], MemberCells(r)[i].avgColor.d),
                     Frac(MemberCells(r)[j].avgColor.n[1], MemberCells(r)[j].avgColor.d))

(***************************************************************************)
(* Further claims about buildLocalSelection (SpecSelect).                  *)
(***************************************************************************)
\* the accepted cells reached from the seed in at most n face-steps through
\* accepted cells
RECURSIVE AcceptedWithin(_, _)
AcceptedWithin(n, keys) ==
  IF n <= 0 THEN {seedKey} \cap keys
  ELSE LET inner == AcceptedWithin(n - 1, keys)
       IN inner \cup {k \in keys : \E s \in inner : FaceAdjacent(s, k)}

\* C16: in every result of buildLocalSelection the number of visited cells
\* reported is at most maxVisitedCells, the number of cluster cells at most
\* maxClusterCells, and every cluster cell lies within maxDepth face-steps of
\* the seed.
C16_TraversalRespectsBounds ==
  (pc = "select.done" /\ answer # Null) =>
    /\ answer.diagnostics.visitedCells <= config.maxVisitedCells
    /\ Len(answer.clusterCellKeys) <= config.maxClusterCells
    /\ SeqElems(answer.clusterCellKeys)
         \subseteq AcceptedWithin(config.maxDepth, SeqElems(answer.clusterCellKeys))

\* what the code keeps of it: the cluster and depth limits, the cells tested
\* against the seed colour (accepted or rejected) at most maxVisitedCells, and
\* the visited cells at most one more
SelectionBoundsKept ==
  (pc = "select.done" /\ answer # Null) =>
    /\ answer.diagnostics.visitedCells <= config.maxVisitedCells + 1
    /\ Len(answer.clusterCellKeys) + answer.diagnostics.rejectedCells
         <= config.maxVisitedCells
    /\ Len(answer.clusterCellKeys) <= config.maxClusterCells
    /\ SeqElems(answer.clusterCellKeys)
         \subseteq AcceptedWithin(config.maxDepth, SeqElems(answer.clusterCellKeys))

\* ---------------------------------------------------------------------------
\* Floor protection of a selection (applyFloorProtection). The function is
\* imported by the tests of src/unnamed/part_009 from click-selection.ts but is
\* not part of the sources at hand; it is modelled from the specification and
\* from what those tests pin down.
\* ---------------------------------------------------------------------------

MaxFloorCells == 5

\* the number of cells in the bottom fraction: 1 of 5 at 0.2, 1 of 2 at 0.6
floorRejectCount(count, bottomQuantileReject) ==
  floor(Frac(count * bottomQuantileReject.n, bottomQuantileReject.d))

rankOfByIndex(cells, i) == i - 1

\* the rank of the i-th cell by worldCenter.y, lowest first; cells at the same
\* height rank in the order given
rankOf(cells, i) ==
  Cardinality({j \in 1..Len(cells) :
    \/ FracLess(cells[j].worldCenter[2], cells[i].worldCenter[2])
    \/ /\ FracEq(cells[j].worldCenter[2], cells[i].worldCenter[2])
       /\ j < i})

RECURSIVE keepFrom(_, _, _)
keepFrom(cells, i, rejectCount) ==
  IF i > Len(cells) THEN <<>>
  ELSE IF rankOf(cells, i) < rejectCount
       THEN keepFrom(cells, i + 1, rejectCount)
       ELSE <<cells[i]>> \o keepFrom(cells, i + 1, rejectCount)

applyFloorProtectionNoFallback(cells, options) ==
  IF ~options.enableFloorProtection
  THEN [applied |-> FALSE, reason |-> "floorProtectionDisabled",
        floorRejectedCells |-> 0, cells |-> cells]
  ELSE LET rejectCount == floorRejectCount(Len(cells), options.bottomQuantileReject)
           kept == keepFrom(cells, 1, rejectCount)
       IN [applied |-> TRUE, reason |-> "floorProtectionApplied",
           floorRejectedCells |-> rejectCount, cells |-> kept]

applyFloorProtection(cells, options) ==
  IF ~options.enableFloorProtection
  THEN [applied |-> FALSE, reason |-> "floorProtectionDisabled",
        floorRejectedCells |-> 0, cells |-> cells]
  ELSE LET rejectCount == floorRejectCount(Len(cells), options.bottomQuantileReject)
           kept == keepFrom(cells, 1, rejectCount)
       IN IF Len(kept) < options.minProtectedCells
          THEN [applied |-> FALSE, reason |-> "floorProtectionFallback_smallCluster",
                floorRejectedCells |-> rejectCount, cells |-> cells]
          ELSE [applied |-> TRUE, reason |-> "floorProtectionApplied",
                floorRejectedCells |-> rejectCount, cells |-> kept]

\* the floor part of the diagnostics of a selection
floorDiagnostics(cells, result) ==
  [acceptedCellsBeforeFloorFilter |-> Len(cells),
   acceptedCellsAfterFloorFilter |-> Len(result.cells),
   floorRejectedCells |-> result.floorRejectedCells]

\* ---------------------------------------------------------------------------
\* Specification of floor protection: a cluster of cells in some order, the
\* options, one call
\* ---------------------------------------------------------------------------

\* a cell 0.2 high whose floor is at height y
floorCell(x, y) ==
  [gridPos |-> <<x, y, 0>>,
   worldCenter |-> <<Frac(10 * x + 5, 10), Frac(10 * y + 1, 10), Frac(5, 10)>>]

\* a column of five cells and one more cell beside its middle
FloorPool == {floorCell(0, y) : y \in 0..4} \cup {floorCell(1, 2)}

FloorClusters ==
  {q \in SeqsUpTo(FloorPool, MaxFloorCells) :
     \A i, j \in 1..Len(q) : i # j => q[i] # q[j]}

FloorOptions ==
  [enableFloorProtection : BOOLEAN,
   bottomQuantileReject : {Frac(0, 10), Frac(2, 10), Frac(6, 10), Frac(10, 10)},
   minProtectedCells : {0, 2, 3}]

InitFloor ==
  /\ NoTraversal /\ NoSession
  /\ pc = "floor.call"
  /\ rawBounds = None /\ config = None /\ cropped = None /\ accumulators = None
  /\ totalSplats = None /\ indexedSplats = None /\ splats = None /\ grid = None
  /\ query \in [cells : FloorClusters, options : FloorOptions]
  /\ answer = None

CallApplyFloorProtection ==
  /\ pc = "floor.call"
  /\ LET result == applyFloorProtection(query.cells, query.options)
     IN answer' = [result |-> result,
                   diagnostics |-> floorDiagnostics(query.cells, result)]
  /\ pc' = "floor.done"
  /\ UNCHANGED <<build, session, traversal>>

NextFloor == CallApplyFloorProtection

SpecFloor == InitFloor /\ [][NextFloor]_vars

FloorY(cell) == cell.worldCenter[2]

\* the cells given that the result does not hold
FloorDropped == SeqElems(query.cells) \ SeqElems(answer.result.cells)

\* removing the bottom fraction leaves at least minProtectedCells cells
FloorFilterFits ==
  Len(query.cells) - floorRejectCount(Len(query.cells), query.options.bottomQuantileReject)
    >= query.options.minProtectedCells

\* C17: with floor protection enabled (and the cluster left large enough), the
\* cells dropped are as many as the bottom bottomQuantileReject fraction of the
\* cluster, none of them lies above a cell that is kept, all other cells are
\* kept in their order, and the diagnostics report the count before, the count
\* after and their difference as floorRejectedCells; a five-cell column at 0.2
\* loses exactly its lowest cell.
C17_BottomQuantileDroppedByRank ==
  (pc = "floor.done" /\ query.options.enableFloorProtection /\ FloorFilterFits) =>
    LET rejectCount ==
          floorRejectCount(Len(query.cells), query.options.bottomQuantileReject)
        kept == answer.result.cells
    IN /\ answer.result.applied
       /\ Len(kept) = Len(query.cells) - rejectCount
       /\ Cardinality(FloorDropped) = rejectCount
       /\ \A d \in FloorDropped, c \in SeqElems(kept) : FracLeq(FloorY(d), FloorY(c))
       /\ \A i, j \in 1..Len(kept) : i < j =>
            \E a, b \in 1..Len(query.cells) :
              a < b /\ query.cells[a] = kept[i] /\ query.cells[b] = kept[j]
       /\ answer.result.floorRejectedCells = rejectCount
       /\ answer.diagnostics.acceptedCellsBeforeFloorFilter = Len(query.cells)
       /\ answer.diagnostics.acceptedCellsAfterFloorFilter = Len(kept)
       /\ answer.diagnostics.floorRejectedCells
            = answer.diagnostics.acceptedCellsBeforeFloorFilter
              - answer.diagnostics.acceptedCellsAfterFloorFilter
       /\ rejectCount > 0 =>
            answer.diagnostics.acceptedCellsBeforeFloorFilter
              > answer.diagnostics.acceptedCellsAfterFloorFilter

\* the five-cell column, given top cell first, at 0.2 with at least two cells
\* protected: the lowest cell alone is dropped
C17_Witness ==
  /\ pc = "floor.done"
  /\ query.cells = <<floorCell(0, 4), floorCell(0, 0), floorCell(0, 3),
                     floorCell(0, 1), floorCell(0, 2)>>
  /\ query.options = [enableFloorProtection |-> TRUE,
                      bottomQuantileReject |-> Frac(2, 10),
                      minProtectedCells |-> 2]
  /\ answer.result.applied
  /\ answer.result.cells = <<floorCell(0, 4), floorCell(0, 3),
                             floorCell(0, 1), floorCell(0, 2)>>
  /\ answer.diagnostics.acceptedCellsBeforeFloorFilter = 5
  /\ answer.diagnostics.acceptedCellsAfterFloorFilter = 4
  /\ answer.diagnostics.floorRejectedCells = 1

\* C18: when removing the bottom fraction would leave fewer than
\* minProtectedCells cells, the cells come back unchanged with applied false,
\* the reason floorProtectionFallback_smallCluster and floorRejectedCells the
\* number the filter would have removed; with floor protection disabled the
\* cells come back unchanged with floorRejectedCells 0; so a result never has
\* fewer than minProtectedCells cells unless it is the whole cluster.
C18_FallbackKeepsWholeCluster ==
  (pc = "floor.done") =>
    LET rejectCount ==
          floorRejectCount(Len(query.cells), query.options.bottomQuantileReject)
    IN /\ (query.options.enableFloorProtection /\ ~FloorFilterFits) =>
            /\ answer.result.cells = query.cells
            /\ ~answer.result.applied
            /\ answer.result.reason = "floorProtectionFallback_smallCluster"
            /\ answer.result.floorRejectedCells = rejectCount
       /\ ~query.options.enableFloorProtection =>
            /\ answer.result.cells = query.cells
            /\ ~answer.result.applied
            /\ answer.result.reason = "floorProtectionDisabled"
            /\ answer.result.floorRejectedCells = 0
       /\ \/ Len(answer.result.cells) >= query.options.minProtectedCells
          \/ answer.result.cells = query.cells

\* two cells at 0.6 with two protected: one cell would go, both come back
C18_Witness ==
  /\ pc = "floor.done"
  /\ query.cells = <<floorCell(0, 0), floorCell(0, 1)>>
  /\ query.options = [enableFloorProtection |-> TRUE,
                      bottomQuantileReject |-> Frac(6, 10),
                      minProtectedCells |-> 2]
  /\ ~answer.result.applied
  /\ answer.result.reason = "floorProtectionFallback_smallCluster"
  /\ answer.result.floorRejectedCells = 1
  /\ answer.result.cells = query.cells

\* disabled: the cells come back as given
C18_DisabledWitness ==
  /\ pc = "floor.done"
  /\ ~query.options.enableFloorProtection
  /\ Len(query.cells) = 2
  /\ answer.result.cells = query.cells
  /\ answer.result.floorRejectedCells = 0

\* ---------------------------------------------------------------------------
\* Specification of the suggested shape: buildLocalSelection on a grid of
\* cubic cells, so that clusters longer along x, along y and along z occur
\* ---------------------------------------------------------------------------

ShapeBox == FinBox(<<0, 0, 0>>, <<4, 4, 4>>)
ShapeGridOptions == [resolution |-> <<2, 2, 2>>, cropYFraction |-> <<0, 0>>]
ShapeSlots == <<<<1, 1, 1>>, <<3, 1, 1>>, <<1, 3, 1>>, <<1, 1, 3>>, <<3, 3, 1>>>>
ShapeTemplates == {[color |-> c, count |-> 1] : c \in {Base, Far}}

ShapeScenes ==
  {s \in [1..Len(ShapeSlots) -> ShapeTemplates \cup {NoPoints}] :
     Cardinality({i \in 1..Len(ShapeSlots) : s[i] # NoPoints}) <= MaxSelectCells}

ShapeOptions ==
  SelectOptions \cup {[DEFAULT_SELECTION_OPTIONS EXCEPT !.minClusterCells = 1],
                      [DEFAULT_SELECTION_OPTIONS EXCEPT !.boxPadding = 100]}

InitShape ==
  /\ NoTraversal /\ NoSession
  /\ pc = "select.start"
  /\ rawBounds = ShapeBox
  /\ \E scene \in ShapeScenes : splats = sceneMesh(ShapeSlots, scene, 1)
  /\ grid = buildSpatialGrid(rawBounds, ShapeGridOptions, splats)
  /\ config \in ShapeOptions
  /\ query = [click |-> <<1, 1, 1>>]
  /\ cropped = None /\ accumulators = None
  /\ totalSplats = 0 /\ indexedSplats = 0 /\ answer = None

SpecShape == InitShape /\ [][NextSelect]_vars

(***************************************************************************)
(* Claims about the suggested shape (SpecShape).                           *)
(***************************************************************************)
Selected == pc = "select.done" /\ answer # Null

\* the extent of the cluster bounds along axis a
ClusterSize(a) == getSize(answer.clusterBounds)[a].v

\* largest extent below 1.6 times the smallest, the smallest taken as at
\* least 0.001 (a cell of one point has no extent)
NearlyCubic ==
  10 * 1000 * Max3(ClusterSize(1), ClusterSize(2), ClusterSize(3))
    < 16 * Max2(1000 * Min3(ClusterSize(1), ClusterSize(2), ClusterSize(3)), 1)

\* axis a exceeds each of the other two by more than 1.8 times
Dominates(a) ==
  \A b \in (1..3) \ {a} : 10 * ClusterSize(a) > 18 * ClusterSize(b)

\* half the extent along a times the padding (in hundredths), at least 0.05
PaddedHalf(a) == Frac(Max2(10, ClusterSize(a) * config.boxPadding), 200)

ShapeFor(ellipsoid) ==
  IF NearlyCubic THEN "SPHERE" ELSE IF ellipsoid THEN "ELLIPSOID" ELSE "BOX"

\* C19 as stated: SPHERE when the largest extent of the cluster bounds is below
\* 1.6 times the smallest; otherwise ELLIPSOID when one axis, whichever it is,
\* exceeds each of the other two by more than 1.8 times; otherwise BOX with
\* half-extents multiplied by the padding.
C19_EllipsoidOnAnyDominantAxis ==
  Selected =>
    /\ answer.suggestedShape.type = ShapeFor(\E a \in 1..3 : Dominates(a))
    /\ answer.suggestedShape.type = "BOX" =>
         \A a \in 1..3 : FracEq(answer.suggestedShape.scale[a], PaddedHalf(a))

\* C19 (amended): SPHERE when the largest extent of the cluster bounds is
\* below 1.6 times the smallest; otherwise ELLIPSOID when the Y extent exceeds
\* each of the X and Z extents by more than 1.8 times; otherwise BOX, also for
\* a cluster whose X or Z extent dominates; BOX and ELLIPSOID carry the
\* half-extents multiplied by the padding, each at least 0.05; the smallest
\* extent counts as at least 0.001.
C19_EllipsoidOnDominantYOnly ==
  Selected =>
    /\ answer.suggestedShape.type = ShapeFor(Dominates(2))
    /\ answer.suggestedShape.type \in {"BOX", "ELLIPSOID"} =>
         \A a \in 1..3 : FracEq(answer.suggestedShape.scale[a], PaddedHalf(a))

\* two cells side by side along x: X dominates, the shape is BOX
C19_Witness ==
  /\ Selected
  /\ Dominates(1)
  /\ answer.suggestedShape.type = "BOX"

\* two cells on top of each other
C19_EllipsoidWitness ==
  Selected /\ Dominates(2) /\ answer.suggestedShape.type = "ELLIPSOID"

C19_SphereWitness ==
  Selected /\ NearlyCubic /\ answer.suggestedShape.type = "SPHERE"

\* no axis dominates and the cluster is not nearly cubic
C19_FlatBoxWitness ==
  /\ Selected /\ ~NearlyCubic /\ \A a \in 1..3 : ~Dominates(a)
  /\ answer.suggestedShape.type = "BOX"

\* ---------------------------------------------------------------------------
\* serializeSpatialGridForLLM (spatial-index.ts lines 603-645)
\* ---------------------------------------------------------------------------

DEFAULT_MIN_SPLATS == 10
DEFAULT_MAX_CELLS == 600

\* Math.round of a quotient with a positive denominator: halves go upwards
round(x) == (2 * x.n + x.d) \div (2 * x.d)

\* r2 = Math.round(n * 100) / 100
r2(x) == Frac(round(Frac(100 * x.n, x.d)), 100)

\* r2 of a component of a Box3: a non-finite number stays what it is
r2Component(a) == IF isFinite(a) THEN r2(Frac(a.v, 1)) ELSE a

HexDigits ==
  <<"0", "1", "2", "3", "4", "5", "6", "7", "8", "9", "a", "b", "c", "d", "e", "f">>

\* THREE.Color.getHexString: each channel clamped to 0..1, scaled to 0..255,
\* rounded, written as two hexadecimal digits
getHexString(color) ==
  LET channel(i) == round(clamp(Frac(255 * color.n[i], color.d * ColorDen),
                                Frac(0, 1), Frac(255, 1)))
      hex(byte) == HexDigits[(byte \div 16) + 1] \o HexDigits[(byte % 16) + 1]
  IN hex(channel(1)) \o hex(channel(2)) \o hex(channel(3))

\* Array.from(grid.cells.entries()).filter(...): a new array of the entries
\* whose cell has at least minSplats points, from the i-th entry on
RECURSIVE filterEntries(_, _, _)
filterEntries(cells, minSplats, i) ==
  IF i > Len(cells.order) THEN <<>>
  ELSE (IF cells.val[i].splatCount >= minSplats
        THEN <<<<cells.order[i], cells.val[i]>>>> ELSE <<>>)
       \o filterEntries(cells, minSplats, i + 1)

\* a sort that puts the smaller counts first
RECURSIVE insertEntryAscending(_, _)
insertEntryAscending(sorted, e) ==
  IF sorted = <<>> THEN <<e>>
  ELSE IF Head(sorted)[2].splatCount - e[2].splatCount > 0
       THEN <<e>> \o sorted
       ELSE <<Head(sorted)>> \o insertEntryAscending(Tail(sorted), e)

\* Array.prototype.sort with b[1].splatCount - a[1].splatCount: stable, larger
\* counts first; insertEntry puts e behind every entry that is not smaller
RECURSIVE insertEntry(_, _)
insertEntry(sorted, e) ==
  IF sorted = <<>> THEN <<e>>
  ELSE IF e[2].splatCount - Head(sorted)[2].splatCount > 0
       THEN <<e>> \o sorted
       ELSE <<Head(sorted)>> \o insertEntry(Tail(sorted), e)

RECURSIVE sortEntries(_, _)
sortEntries(entries, i) ==
  IF i = 0 THEN <<>> ELSE insertEntry(sortEntries(entries, i - 1), entries[i])

\* Array.prototype.slice(0, end): a negative end counts from the back
slice(array, end) ==
  SubSeq(array, 1, IF end < 0 THEN Max2(Len(array) + end, 0) ELSE Min2(end, Len(array)))

\* a run that sorts the entries of the grid's own map
serializeRunInPlace(grid_, options) ==
  LET filtered == filterEntries(grid_.cells, options.minSplats, 1)
      all == sortEntries(filterEntries(grid_.cells, 0, 1), MapSize(grid_.cells))
  IN IF Len(filtered) > options.maxCells
     THEN [cells |-> slice(sortEntries(filtered, Len(filtered)), options.maxCells),
           grid |-> [grid_ EXCEPT !.cells = [order |-> [i \in 1..Len(all) |-> all[i][1]],
                                             val |-> [i \in 1..Len(all) |-> all[i][2]]]]]
     ELSE [cells |-> filtered, grid |-> grid_]

\* lines 607-616: the local array cells at the end of the run, and the grid
\* as the run leaves it (filter makes an array of its own, which is the one
\* sorted; slice copies again)
serializeRun(grid_, options) ==
  LET filtered == filterEntries(grid_.cells, options.minSplats, 1)
  IN IF Len(filtered) > options.maxCells
     THEN [cells |-> slice(sortEntries(filtered, Len(filtered)), options.maxCells),
           grid |-> grid_]
     ELSE [cells |-> filtered, grid |-> grid_]

\* lines 607-608: options.minSplats ?? 10, options.maxCells ?? 600
serializeOptions(options) ==
  [minSplats |-> IF "minSplats" \in DOMAIN options THEN options.minSplats
                 ELSE DEFAULT_MIN_SPLATS,
   maxCells |-> IF "maxCells" \in DOMAIN options THEN options.maxCells
                ELSE DEFAULT_MAX_CELLS]

\* lines 626-639: what is written of one cell
serializeCell(cell) ==
  LET bSize == getSize(cell.worldBounds)
  IN [g |-> cell.gridPos,
      c |-> [i \in 1..3 |-> r2(Frac(cell.worldCenter.n[i], cell.worldCenter.d))],
      d |-> [i \in 1..3 |-> r2Component(bSize[i])],
      n |-> cell.splatCount,
      col |-> "#" \o getHexString(cell.avgColor),
      cv |-> r2(Frac(cell.colorVariance.n, cell.colorVariance.d * ColorDen * ColorDen)),
      den |-> r2(cell.density)]

\* the payload handed to JSON.stringify; the text returned is its rendering
serializeSpatialGridForLLM(grid_, options) ==
  LET cells == serializeRun(grid_, serializeOptions(options)).cells
  IN [resolution |-> grid_.resolution,
      worldBounds |-> [min |-> [i \in 1..3 |-> r2Component(grid_.worldBounds.min[i])],
                       max |-> [i \in 1..3 |-> r2Component(grid_.worldBounds.max[i])]],
      cellSize |-> [i \in 1..3 |-> r2(grid_.cellSize[i])],
      cells |-> [i \in 1..Len(cells) |-> serializeCell(cells[i][2])]]

\* ---------------------------------------------------------------------------
\* Specification of the readers of a grid: on one grid, any sequence of calls
\* of generateManifest, buildLocalSelection, getCellAtWorldPos,
\* getNeighborCells and serializeSpatialGridForLLM, each call possibly
\* repeated with the same arguments
\* ---------------------------------------------------------------------------

ReaderTemplates ==
  {[color |-> Base, count |-> MIN_SPLATS_FOR_LABEL],
   [color |-> Far, count |-> MIN_SPLATS_FOR_LABEL + 1]}

ReaderClicks == {<<1, 4, 1>>, <<3, 6, 3>>}
ReaderPositions == {<<1, 4, 1>>, <<3, 6, 3>>, <<9, 9, 9>>}
ReaderRadii == {Frac(0, 1), Frac(1, 1)}
\* no options, one of the two, or both
ReaderSerializeOptions ==
  {<<>>,
   [minSplats |-> DEFAULT_MIN_SPLATS + 1],
   [maxCells |-> 1],
   [maxCells |-> 0],
   [minSplats |-> 1, maxCells |-> 2]}

InitReaders ==
  /\ NoTraversal /\ NoSession
  /\ pc = "readers.idle"
  /\ rawBounds = ManifestBox
  /\ \E scene \in [1..Len(StatsSlots) -> ReaderTemplates \cup {NoPoints}] :
       splats = sceneMesh(StatsSlots, scene, 1)
  /\ grid = buildSpatialGrid(rawBounds, ManifestOptions, splats)
  /\ config = None /\ cropped = None /\ accumulators = None
  /\ totalSplats = 0 /\ indexedSplats = 0 /\ query = None /\ answer = None

\* the caller's side of a call: the arguments are put in place
Enter(start, args, options) ==
  /\ pc = "readers.idle"
  /\ pc' = start
  /\ query' = args
  /\ config' = options
  /\ UNCHANGED <<session, rawBounds, cropped, accumulators, totalSplats, indexedSplats, splats,
                 grid, answer, traversal>>

StartGenerateManifest ==
  Enter("manifest.start", [op |-> "generateManifest", previous |-> <<>>], None)

StartBuildLocalSelection ==
  \E click \in ReaderClicks, options \in SelectOptions :
    Enter("select.start",
          [op |-> "buildLocalSelection", click |-> click, previous |-> <<>>], options)

StartGetCellAtWorldPos ==
  \E pos \in ReaderPositions :
    Enter("query.call", [op |-> "getCellAtWorldPos", pos |-> pos, previous |-> <<>>], None)

StartGetNeighborCells ==
  \E i \in 1..MapSize(grid.cells), radius \in ReaderRadii :
    Enter("neighbors.call",
          [op |-> "getNeighborCells", cell |-> grid.cells.val[i], radius |-> radius,
           previous |-> <<>>], None)

StartSerialize ==
  \E options \in ReaderSerializeOptions :
    Enter("serialize.call",
          [op |-> "serializeSpatialGridForLLM", options |-> options, previous |-> <<>>],
          None)

CallSerializeSpatialGridForLLM ==
  /\ pc = "serialize.call"
  /\ answer' = serializeSpatialGridForLLM(grid, query.options)
  /\ grid' = serializeRun(grid, serializeOptions(query.options)).grid
  /\ pc' = "serialize.returned"
  /\ UNCHANGED <<traversal, session, rawBounds, config, cropped, accumulators, totalSplats,
                 indexedSplats, splats, query>>

Returned ==
  pc \in {"manifest.done", "select.done", "query.returned", "neighbors.returned",
          "serialize.returned"}

startOf(op) ==
  CASE op = "generateManifest" -> "manifest.start"
    [] op = "buildLocalSelection" -> "select.start"
    [] op = "getCellAtWorldPos" -> "query.call"
    [] op = "getNeighborCells" -> "neighbors.call"
    [] op = "serializeSpatialGridForLLM" -> "serialize.call"

\* the locals of the call that returned are gone
DropLocals ==
  /\ cellLabels' = None /\ visited' = None /\ queue' = None /\ component' = None
  /\ cursor' = None /\ regions' = None /\ accepted' = None /\ rejectedCells' = None
  /\ reasons' = None /\ seedKey' = None

\* the caller keeps the result and makes the same call again
CallAgain ==
  /\ Returned
  /\ pc' = startOf(query.op)
  /\ query' = [query EXCEPT !.previous = <<answer>>]
  /\ answer' = None
  /\ DropLocals
  /\ UNCHANGED <<session, rawBounds, config, cropped, accumulators, totalSplats, indexedSplats,
                 splats, grid>>

\* the caller is done with the result
Release ==
  /\ Returned
  /\ pc' = "readers.idle"
  /\ query' = None
  /\ config' = None
  /\ answer' = None
  /\ DropLocals
  /\ UNCHANGED <<session, rawBounds, cropped, accumulators, totalSplats, indexedSplats, splats,
                 grid>>

NextReaders ==
  \/ StartGenerateManifest
  \/ StartBuildLocalSelection
  \/ StartGetCellAtWorldPos
  \/ StartGetNeighborCells
  \/ StartSerialize
  \/ NextManifest
  \/ NextSelect
  \/ CallGetCellAtWorldPos
  \/ CallGetNeighborCells
  \/ CallSerializeSpatialGridForLLM
  \/ CallAgain
  \/ Release

SpecReaders == InitReaders /\ [][NextReaders]_vars

(***************************************************************************)
(* Claims about the readers of a grid (SpecReaders).                       *)
(***************************************************************************)
\* a call made for the second time has returned what the first one returned
RepeatedCallEqual ==
  (Returned /\ query.previous # <<>>) => answer = query.previous[1]

\* C20: no step of generateManifest, buildLocalSelection, getCellAtWorldPos,
\* getNeighborCells or serializeSpatialGridForLLM, in any sequence of calls,
\* changes the grid (its resolution, bounds, cell size, the keys of its cells,
\* their order and every cell's statistics), and a call repeated with the same
\* arguments returns a result equal to the first.
C20_ReadersLeaveGridUnchanged ==
  /\ [][/\ grid' = grid
        /\ grid'.resolution = grid.resolution
        /\ grid'.worldBounds = grid.worldBounds
        /\ grid'.cellSize = grid.cellSize
        /\ grid'.cells.order = grid.cells.order
        /\ grid'.cells.val = grid.cells.val]_vars
  /\ []RepeatedCallEqual

\* a serialization repeated on a grid whose eligible cells had to be sorted and
\* cut to maxCells
C20_Witness ==
  /\ pc = "serialize.returned"
  /\ query.previous # <<>>
  /\ Len(answer.cells) = serializeOptions(query.options).maxCells
  /\ Len(answer.cells) < MapSize(grid.cells)
  /\ \E i \in 1..Len(answer.cells) : answer.cells[i].g # grid.cells.order[i]

\* a manifest generated a second time after other calls
C20_ManifestWitness ==
  pc = "manifest.done" /\ query.previous # <<>> /\ Len(answer.regions) >= 2

C20_SelectionWitness ==
  pc = "select.done" /\ query.previous # <<>> /\ answer # Null

(***************************************************************************)
(* Claims about serializeSpatialGridForLLM (SpecReaders).                  *)
(***************************************************************************)
Serialized == pc = "serialize.returned"

\* the cells of the grid that have at least minSplats points
EligibleKeys ==
  {k \in MapKeys(grid.cells) :
     MapGet(grid.cells, k).splatCount >= serializeOptions(query.options).minSplats}

EmittedKeys == {answer.cells[i].g : i \in 1..Len(answer.cells)}

\* C21: every cell emitted by serializeSpatialGridForLLM is a cell of the grid
\* with at least minSplats points (10 when not given) and is emitted once with
\* its own count; at most maxCells cells (600 when not given) are emitted, as
\* many as there are eligible ones up to that number; no eligible cell left
\* out has more points than an emitted one; no emitted cell carries
\* splatIndices.
C21_SerializationKeepsLargestEligibleCells ==
  Serialized =>
    LET resolved == serializeOptions(query.options)
    IN /\ ("minSplats" \notin DOMAIN query.options) => resolved.minSplats = 10
       /\ ("maxCells" \notin DOMAIN query.options) => resolved.maxCells = 600
       /\ EmittedKeys \subseteq EligibleKeys
       /\ Cardinality(EmittedKeys) = Len(answer.cells)
       /\ \A i \in 1..Len(answer.cells) :
            answer.cells[i].n = MapGet(grid.cells, answer.cells[i].g).splatCount
       /\ Len(answer.cells) = Min2(Cardinality(EligibleKeys), resolved.maxCells)
       /\ \A omitted \in EligibleKeys \ EmittedKeys, emitted \in EmittedKeys :
            MapGet(grid.cells, omitted).splatCount
              <= MapGet(grid.cells, emitted).splatCount
       /\ \A i \in 1..Len(answer.cells) : "splatIndices" \notin DOMAIN answer.cells[i]

\* a truncation that leaves out a cell which the grid holds before a larger one
C21_Witness ==
  /\ Serialized
  /\ \E omitted \in EligibleKeys \ EmittedKeys, emitted \in EmittedKeys :
       /\ MapGet(grid.cells, omitted).splatCount < MapGet(grid.cells, emitted).splatCount
       /\ \E i, j \in 1..MapSize(grid.cells) :
            i < j /\ grid.cells.order[i] = omitted /\ grid.cells.order[j] = emitted

\* cells below the default of 10 points do not occur in these grids; a cell of
\* 10 points left out at minSplats 11
C21_ThresholdWitness ==
  /\ Serialized
  /\ MapKeys(grid.cells) \ EligibleKeys # {}
  /\ EmittedKeys # {}

\* ---------------------------------------------------------------------------
\* Specification of the seed of a selection: buildLocalSelection on a long
\* grid, clicked at its cells, some rings away from them and beyond the five
\* rings that getCellAtWorldPos searches
\* ---------------------------------------------------------------------------

SeedBox == FinBox(<<0, 0, 0>>, <<16, 4, 4>>)
SeedGridOptions == [resolution |-> <<8, 2, 2>>, cropYFraction |-> <<0, 0>>]
SeedSlots == <<<<1, 1, 1>>, <<3, 1, 1>>, <<1, 3, 1>>, <<3, 3, 1>>>>
SeedClicks == {<<1, 1, 1>>, <<11, 1, 1>>, <<15, 1, 1>>}

InitSeed ==
  /\ NoTraversal /\ NoSession
  /\ pc = "select.start"
  /\ rawBounds = SeedBox
  /\ \E scene \in [1..Len(SeedSlots) -> ShapeTemplates \cup {NoPoints}] :
       splats = sceneMesh(SeedSlots, scene, 1)
  /\ grid = buildSpatialGrid(rawBounds, SeedGridOptions, splats)
  /\ config \in SelectOptions
  /\ \E click \in SeedClicks : query = [click |-> click]
  /\ cropped = None /\ accumulators = None
  /\ totalSplats = 0 /\ indexedSplats = 0 /\ answer = None

SpecSeed == InitSeed /\ [][NextSelect]_vars

(***************************************************************************)
(* Claims about the seed and the results of a selection (SpecSeed).        *)
(***************************************************************************)
SelectionDone == pc = "select.done"

NoSeedFound == getCellAtWorldPos(grid, query.click) = Null

C22_TooSmallWitness ==
  SelectionDone /\ ~NoSeedFound /\ MapSize(accepted) = 1 /\ answer = Null

\* a seed found some rings away from the click
C22_FarSeedWitness ==
  /\ SelectionDone /\ ~NoSeedFound /\ answer # Null
  /\ query.click = <<11, 1, 1>>

C22_EmptyGridWitness ==
  SelectionDone /\ MapSize(grid.cells) = 0 /\ answer = Null

\* ---------------------------------------------------------------------
\* The command agent (src/src/main.ts, lines 260-1256).
\* A JSON value is a record of one field, named after the kind of the
\* value (num, str, bool, arr, obj, null, undefined) and holding it.  Text that the code trims, searches or cuts is a sequence of
\* characters; the names of actions, blend modes and shape types are
\* strings.  A JSON number is an exact fraction.
\* ---------------------------------------------------------------------

\* line 266
MAX_RETRIES == 1

\* lines 271-292 (ACTIONS, BLEND_MODES, SHAPE_TYPES)
EDIT_ACTIONS == {"delete", "recolor", "light", "darken", "atmosphere"}
BLEND_MODES == {"MULTIPLY", "SET_RGB", "ADD_RGBA"}
SHAPE_TYPES ==
  {"SPHERE", "BOX", "ELLIPSOID", "CYLINDER", "CAPSULE", "PLANE", "INFINITE_CONE", "ALL"}

Undefined == [undefined |-> TRUE]
JNull == [null |-> TRUE]
JBool(b) == [bool |-> b]
JNum(n, d) == [num |-> Frac(n, d)]
JStr(s) == [str |-> s]
JArr(items) == [arr |-> items]
JObj(fields) == [obj |-> fields]
kind(value) == CHOOSE k \in DOMAIN value : TRUE

\* the typeof operator
typeof(value) ==
  CASE kind(value) \in {"obj", "arr", "null"} -> "object"
    [] kind(value) = "num" -> "number"
    [] kind(value) = "str" -> "string"
    [] kind(value) = "bool" -> "boolean"
    [] OTHER -> "undefined"

\* lines 1253-1255
isRecord(value) == typeof(value) = "object" /\ value # JNull

\* Array.isArray
isArray(value) == kind(value) = "arr"

\* raw.name: undefined when the object has no such property
prop(raw, name) ==
  IF kind(raw) = "obj" /\ name \in DOMAIN raw.obj THEN raw.obj[name] ELSE Undefined

\* typeof value === "number" && Number.isFinite(value)
isFiniteNumber(value) == typeof(value) = "number"

\* a thrown Error with its message, and a normal return with its value
Thrown(message) == [threw |-> TRUE, message |-> message]
Returns(value) == [threw |-> FALSE, value |-> value]

WhiteSpace == {" ", "\t", "\n"}
UpperCase ==
  <<"A", "B", "C", "D", "E", "F", "G", "H", "I", "J", "K", "L", "M",
    "N", "O", "P", "Q", "R", "S", "T", "U", "V", "W", "X", "Y", "Z">>
LowerCase ==
  <<"a", "b", "c", "d", "e", "f", "g", "h", "i", "j", "k", "l", "m",
    "n", "o", "p", "q", "r", "s", "t", "u", "v", "w", "x", "y", "z">>
Digits == {"0", "1", "2", "3", "4", "5", "6", "7", "8", "9"}

\* String.prototype.trim
RECURSIVE trimStart(_)
trimStart(s) ==
  IF s # <<>> /\ Head(s) \in WhiteSpace THEN trimStart(Tail(s)) ELSE s
RECURSIVE trimEnd(_)
trimEnd(s) ==
  IF s # <<>> /\ s[Len(s)] \in WhiteSpace THEN trimEnd(SubSeq(s, 1, Len(s) - 1)) ELSE s
trim(s) == trimEnd(trimStart(s))

\* String.prototype.toLowerCase
toLowerCase(s) ==
  [i \in 1..Len(s) |->
     IF \E k \in 1..Len(UpperCase) : UpperCase[k] = s[i]
     THEN LowerCase[CHOOSE k \in 1..Len(UpperCase) : UpperCase[k] = s[i]]
     ELSE s[i]]

\* String.prototype.includes
includes(s, needle) ==
  \E i \in 1..(Len(s) - Len(needle) + 1) : SubSeq(s, i, i + Len(needle) - 1) = needle

\* line 1180: replace(/[^a-z0-9\s-]/g, "")
keepLabelCharacters(s) ==
  SelectSeq(s, LAMBDA c : c \in SeqElems(LowerCase) \cup Digits \cup WhiteSpace \cup {"-"})

\* line 1182: replace(/\s+/g, " ")
RECURSIVE collapseWhiteSpace(_)
collapseWhiteSpace(s) ==
  IF s = <<>> THEN <<>>
  ELSE IF Head(s) \in WhiteSpace THEN <<" ">> \o collapseWhiteSpace(trimStart(s))
  ELSE <<Head(s)>> \o collapseWhiteSpace(Tail(s))

\* lines 1174-1187
getDeleteAssetLabel(rawLabel, command) ==
  LET compact == collapseWhiteSpace(trim(keepLabelCharacters(toLowerCase(command))))
  IN IF typeof(rawLabel) = "string" /\ trim(rawLabel.str) # <<>> THEN trim(rawLabel.str)
     ELSE IF compact = <<>> THEN <<"e", "x", "t", "r", "a", "c", "t", "e", "d", " ", "a", "s", "s", "e", "t">>
     ELSE IF Len(compact) > 48 THEN SubSeq(compact, 1, 45) \o <<".", ".", ".">>
     ELSE compact

\* lines 1189-1201
toNumberTuple(value, length) ==
  IF ~isArray(value) \/ Len(value.arr) # length THEN Null
  ELSE IF \E i \in 1..Len(value.arr) : ~isFiniteNumber(value.arr[i]) THEN Null
  ELSE value.arr

\* Math.max(0, x) and clamp(x, min, max) (lines 1226-1228) on a JSON number
atLeastZero(x) == [num |-> IF FracLess(x.num, Frac(0, 1)) THEN Frac(0, 1) ELSE x.num]
clampJson(x, min, max) == [num |-> clamp(x.num, min, max)]

\* lines 1203-1212
clampOptionalNumber(value, min, max) ==
  IF ~isFiniteNumber(value) THEN Undefined ELSE clampJson(value, min, max)

\* lines 1214-1224
clampNumber(value, min, max, fallback) ==
  IF ~isFiniteNumber(value) THEN [num |-> fallback]
  ELSE clampJson(value, min, max)

\* lines 1234-1251, with every action mapped to MULTIPLY
canonicalBlendModeAlwaysMultiply(action, requestedBlendMode) == "MULTIPLY"

\* lines 1234-1251
canonicalBlendModeForAction(action, requestedBlendMode) ==
  IF action = "delete" THEN "MULTIPLY"
  ELSE IF action = "recolor" THEN "SET_RGB"
  ELSE IF action = "darken" THEN "MULTIPLY"
  ELSE IF action = "light" THEN "ADD_RGBA"
  ELSE requestedBlendMode

\* the words that open the message of a shape error, lines 1117-1127
shapeWhere(opIndex, shapeIndex) ==
  <<"O", "p", "e", "r", "a", "t", "i", "o", "n", " ">> \o <<ToString(opIndex)>> \o <<" ", "s", "h", "a", "p", "e", " ">> \o <<ToString(shapeIndex)>>

\* lines 1111-1172
validateShape(raw, opIndex, shapeIndex) ==
  LET type == prop(raw, "type")
      position == toNumberTuple(prop(raw, "position"), 3)
      rotation == toNumberTuple(prop(raw, "rotation"), 4)
      scale == toNumberTuple(prop(raw, "scale"), 3)
      color == toNumberTuple(prop(raw, "color"), 3)
      displace == toNumberTuple(prop(raw, "displace"), 3)
  IN IF ~isRecord(raw)
     THEN Thrown(shapeWhere(opIndex, shapeIndex) \o <<" ", "i", "s", " ", "n", "o", "t", " ", "a", "n", " ", "o", "b", "j", "e", "c", "t", ".">>)
     ELSE IF typeof(type) # "string" \/ type.str \notin SHAPE_TYPES
     THEN Thrown(shapeWhere(opIndex, shapeIndex) \o <<" ", "h", "a", "s", " ", "i", "n", "v", "a", "l", "i", "d", " ", "t", "y", "p", "e", ".">>)
     ELSE IF position = Null
     THEN Thrown(shapeWhere(opIndex, shapeIndex) \o <<" ", "h", "a", "s", " ", "i", "n", "v", "a", "l", "i", "d", " ", "p", "o", "s", "i", "t", "i", "o", "n", ".">>)
     ELSE Returns(
       [type |-> type.str,
        position |-> JArr(position),
        rotation |-> IF rotation # Null THEN JArr(rotation) ELSE Undefined,
        radius |-> IF isFiniteNumber(prop(raw, "radius"))
                   THEN atLeastZero(prop(raw, "radius")) ELSE Undefined,
        scale |-> IF scale # Null
                  THEN JArr([i \in 1..3 |-> atLeastZero(scale[i])]) ELSE Undefined,
        color |-> IF color # Null
                  THEN JArr([i \in 1..3 |-> clampJson(color[i], Frac(0, 1), Frac(1, 1))])
                  ELSE Undefined,
        opacity |-> IF isFiniteNumber(prop(raw, "opacity"))
                    THEN clampJson(prop(raw, "opacity"), Frac(0, 1), Frac(1, 1))
                    ELSE Undefined,
        displace |-> IF displace # Null THEN JArr(displace) ELSE Undefined])

\* Array.prototype.map with a callback that may throw: the first throw ends
\* the map, otherwise the values are returned in order
mapOrThrow(results) ==
  IF \E i \in 1..Len(results) : results[i].threw
  THEN results[CHOOSE i \in 1..Len(results) :
                 results[i].threw /\ \A j \in 1..(i - 1) : ~results[j].threw]
  ELSE Returns([i \in 1..Len(results) |-> results[i].value])

\* the words that open the message of an operation error, lines 1042-1060
operationWhere(index) == <<"O", "p", "e", "r", "a", "t", "i", "o", "n", " ">> \o <<ToString(index)>>

\* lines 1036-1109
validateOperation(raw, index, command) ==
  LET action == prop(raw, "action")
      blendMode == prop(raw, "blendMode")
      rawShapes == prop(raw, "shapes")
      shapes == mapOrThrow([i \in 1..Len(rawShapes.arr) |->
                              validateShape(rawShapes.arr[i], index, i - 1)])
      softEdgeDefault ==
        IF action.str = "light" \/ action.str = "atmosphere" THEN Frac(2, 10) ELSE Frac(1, 10)
      rawLabel == prop(raw, "assetLabel")
  IN IF ~isRecord(raw) THEN Thrown(operationWhere(index) \o <<" ", "i", "s", " ", "n", "o", "t", " ", "a", "n", " ", "o", "b", "j", "e", "c", "t", ".">>)
     ELSE IF typeof(action) # "string" \/ action.str \notin EDIT_ACTIONS
     THEN Thrown(operationWhere(index) \o <<" ", "h", "a", "s", " ", "i", "n", "v", "a", "l", "i", "d", " ", "a", "c", "t", "i", "o", "n", ".">>)
     ELSE IF typeof(blendMode) # "string" \/ blendMode.str \notin BLEND_MODES
     THEN Thrown(operationWhere(index) \o <<" ", "h", "a", "s", " ", "i", "n", "v", "a", "l", "i", "d", " ", "b", "l", "e", "n", "d", "M", "o", "d", "e", ".">>)
     ELSE IF ~isArray(rawShapes) \/ Len(rawShapes.arr) = 0
     THEN Thrown(operationWhere(index) \o <<" ", "m", "u", "s", "t", " ", "i", "n", "c", "l", "u", "d", "e", " ", "n", "o", "n", "-", "e", "m", "p", "t", "y", " ", "s", "h", "a", "p", "e", "s", " ", "a", "r", "r", "a", "y", ".">>)
     ELSE IF shapes.threw THEN shapes
     ELSE Returns(
       [action |-> action.str,
        blendMode |-> canonicalBlendModeForAction(action.str, blendMode.str),
        shapes |-> IF action.str = "delete"
                   THEN [i \in 1..Len(shapes.value) |->
                           [shapes.value[i] EXCEPT !.opacity = JNum(0, 1)]]
                   ELSE shapes.value,
        softEdge |-> clampNumber(prop(raw, "softEdge"), Frac(1, 1000), Frac(10, 1),
                                 softEdgeDefault),
        sdfSmooth |-> clampOptionalNumber(prop(raw, "sdfSmooth"), Frac(0, 1), Frac(10, 1)),
        invert |-> IF typeof(prop(raw, "invert")) = "boolean"
                   THEN prop(raw, "invert") ELSE Undefined,
        extractAsset |-> IF action.str = "delete" THEN JBool(TRUE)
                         ELSE IF typeof(prop(raw, "extractAsset")) = "boolean"
                         THEN prop(raw, "extractAsset") ELSE Undefined,
        assetLabel |-> IF action.str = "delete"
                       THEN JStr(getDeleteAssetLabel(rawLabel, command))
                       ELSE IF typeof(rawLabel) = "string" /\ trim(rawLabel.str) # <<>>
                       THEN JStr(trim(rawLabel.str)) ELSE Undefined])

\* lines 1027-1034
validateOperations(raw, command) ==
  IF ~isArray(raw) THEN Thrown(<<"G", "e", "m", "i", "n", "i", " ", "o", "u", "t", "p", "u", "t", " ", "i", "s", " ", "n", "o", "t", " ", "a", " ", "J", "S", "O", "N", " ", "a", "r", "r", "a", "y", ".">>)
  ELSE mapOrThrow([i \in 1..Len(raw.arr) |-> validateOperation(raw.arr[i], i - 1, command)])
\* ---------------------------------------------------------------------
\* The text of a model response.  fenced: the text is wrapped in a
\* ```json fence; content: the JSON value the text spells, NotJson for
\* text JSON.parse rejects, Blank for white space only.
\* ---------------------------------------------------------------------
NotJson == [notjson |-> TRUE]
Blank == [blank |-> TRUE]
Plain(content) == [fenced |-> FALSE, content |-> content]
Fenced(content) == [fenced |-> TRUE, content |-> content]

\* text.trim() is the empty string
isBlank(text) == ~text.fenced /\ text.content = Blank

\* JSON.parse
JSONparse(text) ==
  IF text.fenced \/ text.content \in {NotJson, Blank}
  THEN Thrown(<<"U", "n", "e", "x", "p", "e", "c", "t", "e", "d", " ", "t", "o", "k", "e", "n">>)
  ELSE Returns(text.content)

\* lines 994-1006: the candidates, the trimmed text first, then the text
\* inside the fence (MARKDOWN_JSON_REGEX, line 268)
parseCandidates(responseText) ==
  (IF isBlank(responseText) THEN <<>> ELSE <<responseText>>)
    \o (IF responseText.fenced /\ responseText.content # Blank
        THEN <<Plain(responseText.content)>> ELSE <<>>)

\* lines 1010-1020: one turn of the loop over the candidates
parseOne(candidate, command) ==
  LET parsed == JSONparse(candidate)
  IN IF parsed.threw THEN parsed ELSE validateOperations(parsed.value, command)

\* lines 990-1025
parseAndValidateOperations(responseText, command) ==
  LET candidates == parseCandidates(responseText)
      results == [i \in 1..Len(candidates) |-> parseOne(candidates[i], command)]
  IN IF \E i \in 1..Len(results) : ~results[i].threw
     THEN results[CHOOSE i \in 1..Len(results) :
                    ~results[i].threw /\ \A j \in 1..(i - 1) : results[j].threw]
     ELSE Thrown(<<"U", "n", "a", "b", "l", "e", " ", "t", "o", " ", "p", "a", "r", "s", "e", " ", "G", "e", "m", "i", "n", "i", " ", "J", "S", "O", "N", " ", "r", "e", "s", "p", "o", "n", "s", "e", ".", " ">>
                 \o (IF candidates = <<>> THEN <<"N", "o", " ", "p", "a", "r", "s", "e", " ", "a", "t", "t", "e", "m", "p", "t", "s", " ", "s", "u", "c", "c", "e", "e", "d", "e", "d", ".">>
                     ELSE results[Len(results)].message))

\* lines 966-988 and 882-907; payload.text is a text or undefined,
\* payload.parts the texts of the parts (at most one of them is not blank)
extractText(payload, emptyMessage) ==
  LET candidateTexts == SelectSeq(payload.parts, LAMBDA text : ~isBlank(text))
  IN IF payload.text # Undefined /\ ~isBlank(payload.text) THEN Returns(payload.text)
     ELSE IF candidateTexts = <<>> THEN Thrown(emptyMessage)
     ELSE Returns(candidateTexts[1])

\* lines 966-988
extractTextFromGeminiResponse(payload) ==
  extractText(payload, <<"G", "e", "m", "i", "n", "i", " ", "r", "e", "s", "p", "o", "n", "s", "e", " ", "c", "o", "n", "t", "a", "i", "n", "e", "d", " ", "n", "o", " ", "t", "e", "x", "t", " ", "c", "o", "n", "t", "e", "n", "t", ".">>)

\* lines 882-907
extractTextFromOpenAIResponse(payload) ==
  extractText(payload, <<"O", "p", "e", "n", "A", "I", " ", "r", "e", "s", "p", "o", "n", "s", "e", " ", "c", "o", "n", "t", "a", "i", "n", "e", "d", " ", "n", "o", " ", "t", "e", "x", "t", " ", "c", "o", "n", "t", "e", "n", "t", ".">>)

\* lines 934-956
shouldUseOpenAIFallback(geminiApiKey, lastError_) ==
  IF geminiApiKey = <<>> THEN TRUE
  ELSE IF lastError_ = Null THEN FALSE
  ELSE LET message == toLowerCase(lastError_)
       IN \/ includes(message, <<"5", "0", "3">>)
          \/ includes(message, <<"s", "t", "a", "t", "u", "s", "\"", ":", "\"", "u", "n", "a", "v", "a", "i", "l", "a", "b", "l", "e", "\"">>)
          \/ includes(message, <<"h", "i", "g", "h", " ", "d", "e", "m", "a", "n", "d">>)
          \/ includes(message, <<"4", "2", "9">>)
          \/ includes(message, <<"r", "a", "t", "e", " ", "l", "i", "m", "i", "t">>)
          \/ includes(message, <<"t", "i", "m", "e", "o", "u", "t">>)
          \/ includes(message, <<"n", "e", "t", "w", "o", "r", "k">>)
          \/ includes(message, <<"f", "e", "t", "c", "h", " ", "f", "a", "i", "l", "e", "d">>)

\* a line of the prompt: its fixed words and the text put after them
Line(text, arg) == [text |-> text, arg |-> arg]

\* line 616, with the retry never announced
retryingNever(attempt_) == FALSE

\* line 616
retrying(attempt_) == attempt_ > 0

\* lines 754-802
buildUserText(command, clickPosition, voxelContext, manifestSummary, simplifyForRetry, hasSecondaryImage) ==
  LET hasVoxel == voxelContext # Null /\ trim(voxelContext) # <<>>
  IN (IF manifestSummary # Null /\ trim(manifestSummary) # <<>>
      THEN <<Line("Scene summary:", <<>>), Line("", trim(manifestSummary)), Line("", <<>>)>>
      ELSE <<>>)
     \o (IF clickPosition # Null
         THEN <<Line("Click world position: ", clickPosition)>>
              \o (IF hasVoxel
                  THEN <<Line("Voxel context near click:", <<>>),
                         Line("", trim(voxelContext))>>
                  ELSE <<Line("Voxel context near click: not provided.", <<>>)>>)
              \o <<Line("", <<>>)>>
         ELSE IF hasVoxel
         THEN <<Line("Voxel context:", <<>>), Line("", trim(voxelContext)), Line("", <<>>)>>
         ELSE <<>>)
     \o <<Line("Output requirements:", <<>>),
          Line("- Return only a valid JSON array of EditOperation objects.", <<>>),
          Line("- No markdown, no prose.", <<>>)>>
     \o (IF hasSecondaryImage
         THEN <<Line("- The second image is a click-centered crop around the selected target. Prefer it for local object boundaries.", <<>>)>>
         ELSE <<>>)
     \o (IF simplifyForRetry
         THEN <<Line("- Return only valid JSON array of EditOperation objects. No markdown.", <<>>)>>
         ELSE <<>>)
     \o <<Line("", <<>>), Line("User command: ", command)>>
\* ---------------------------------------------------------------------
\* processCommand, lines 587-712.  query holds the arguments, the
\* environment's OpenAI key and whether a second screenshot is pending;
\* requests is the list of the model requests made so far, each with the
\* reply it got.
\* ---------------------------------------------------------------------
agentVars == <<attempt, lastError, requests>>
worldVars == <<currentGrid, currentManifest, lastClickPoint, currentWorldId, worldLoading,
               loadCalls>>

Pending == [pending |-> TRUE]
Rejected(message) == [status |-> "rejected", message |-> message]
Resolved(operations) == [status |-> "resolved", operations |-> operations]

trimmedCommand == trim(query.command)
geminiApiKey == trim(query.apiKey)
openAIApiKey == trim(query.openAIApiKey)

\* lines 595-598
RejectEmptyCommand ==
  /\ pc = "agent.entry"
  /\ trimmedCommand = <<>>
  /\ answer' = Rejected(<<"[", "a", "g", "e", "n", "t", "]", " ", "E", "R", "R", "O", "R", ":", " ", "c", "o", "m", "m", "a", "n", "d", " ", "i", "s", " ", "e", "m", "p", "t", "y">>)
  /\ pc' = "agent.done"
  /\ UNCHANGED <<build, traversal, session, query>>

\* lines 599-603
RejectMissingKey ==
  /\ pc = "agent.entry"
  /\ trimmedCommand # <<>>
  /\ geminiApiKey = <<>> /\ openAIApiKey = <<>>
  /\ answer' = Rejected(<<"[", "a", "g", "e", "n", "t", "]", " ", "E", "R", "R", "O", "R", ":", " ", "m", "i", "s", "s", "i", "n", "g", " ", "G", "e", "m", "i", "n", "i", "/", "O", "p", "e", "n", "A", "I", " ", "A", "P", "I", " ", "k", "e", "y">>)
  /\ pc' = "agent.done"
  /\ UNCHANGED <<build, traversal, session, query>>

\* lines 605-615 and 670-672
StartProcessCommand ==
  /\ pc = "agent.entry"
  /\ trimmedCommand # <<>>
  /\ geminiApiKey # <<>> \/ openAIApiKey # <<>>
  /\ lastError' = Null
  /\ requests' = <<>>
  /\ IF geminiApiKey # <<>>
     THEN attempt' = 0 /\ pc' = "agent.loop"
     ELSE attempt' = attempt /\ pc' = "agent.fallback"
  /\ UNCHANGED <<build, traversal, worldVars, query, answer>>

\* lines 615-645: the request of one attempt
SendGeminiRequest ==
  /\ pc = "agent.loop"
  /\ attempt <= MAX_RETRIES
  /\ requests' = Append(requests,
       [model |-> "gemini",
        userText |-> buildUserText(trimmedCommand, query.clickPosition,
                                   query.voxelContext, query.manifestSummary,
                                   retrying(attempt), query.hasSecondaryImage),
        response |-> Pending, reply |-> Pending])
  /\ pc' = "agent.awaitGemini"
  /\ UNCHANGED <<build, traversal, worldVars, attempt, lastError, query, answer>>

\* line 615: the loop ends when the attempts are used up
LeaveRetryLoop ==
  /\ pc = "agent.loop"
  /\ attempt > MAX_RETRIES
  /\ pc' = "agent.fallback"
  /\ UNCHANGED <<build, traversal, session, query, answer>>

\* lines 637-652: what an attempt makes of the outcome of generateContent
geminiAttempt(outcome) ==
  IF outcome.rejected THEN Thrown(outcome.message)
  ELSE LET text == extractTextFromGeminiResponse(outcome.payload)
       IN IF text.threw THEN text
          ELSE parseAndValidateOperations(text.value, trimmedCommand)

\* lines 688-694
openAIAttempt(outcome) ==
  IF outcome.rejected THEN Thrown(outcome.message)
  ELSE LET text == extractTextFromOpenAIResponse(outcome.payload)
       IN IF text.threw THEN text
          ELSE parseAndValidateOperations(text.value, trimmedCommand)

\* the last request of the log, with the outcome it got and what the attempt
\* made of it
withReply(log, outcome, result) ==
  [log EXCEPT ![Len(log)].response = outcome, ![Len(log)].reply = result]
\* lines 650-655: the attempt produced a valid list, which is returned
GeminiReturns(outcome) ==
  /\ pc = "agent.awaitGemini"
  /\ LET result == geminiAttempt(outcome)
     IN /\ ~result.threw
        /\ requests' = withReply(requests, outcome, result)
        /\ answer' = Resolved(result.value)
  /\ pc' = "agent.done"
  /\ UNCHANGED <<build, traversal, worldVars, attempt, lastError, query>>

\* lines 656-668: the attempt threw; the error is kept and the loop goes on
GeminiThrows(outcome) ==
  /\ pc = "agent.awaitGemini"
  /\ LET result == geminiAttempt(outcome)
     IN /\ result.threw
        /\ requests' = withReply(requests, outcome, result)
        /\ lastError' = result.message
  /\ attempt' = attempt + 1
  /\ pc' = "agent.loop"
  /\ UNCHANGED <<build, traversal, worldVars, query, answer>>

\* lines 674-693: the request to the fallback model
SendOpenAIRequest ==
  /\ pc = "agent.fallback"
  /\ openAIApiKey # <<>> /\ shouldUseOpenAIFallback(geminiApiKey, lastError)
  /\ requests' = Append(requests,
       [model |-> "openai",
        userText |-> buildUserText(trimmedCommand, query.clickPosition,
                                   query.voxelContext, query.manifestSummary,
                                   FALSE, query.hasSecondaryImage),
        response |-> Pending, reply |-> Pending])
  /\ pc' = "agent.awaitOpenAI"
  /\ UNCHANGED <<build, traversal, worldVars, attempt, lastError, query, answer>>

\* lines 705-711: no fallback, the last error is thrown
ThrowLastError ==
  /\ pc = "agent.fallback"
  /\ ~(openAIApiKey # <<>> /\ shouldUseOpenAIFallback(geminiApiKey, lastError))
  /\ answer' = Rejected(IF lastError # Null THEN lastError
                        ELSE <<"[", "a", "g", "e", "n", "t", "]", " ", "E", "R", "R", "O", "R", ":", " ", "u", "n", "k", "n", "o", "w", "n", " ", "p", "r", "o", "c", "e", "s", "s", "i", "n", "g", " ", "f", "a", "i", "l", "u", "r", "e">>)
  /\ pc' = "agent.done"
  /\ UNCHANGED <<build, traversal, session, query>>

\* lines 694-699
OpenAIReturns(outcome) ==
  /\ pc = "agent.awaitOpenAI"
  /\ LET result == openAIAttempt(outcome)
     IN /\ ~result.threw
        /\ requests' = withReply(requests, outcome, result)
        /\ answer' = Resolved(result.value)
  /\ pc' = "agent.done"
  /\ UNCHANGED <<build, traversal, worldVars, attempt, lastError, query>>

\* lines 700-711: the fallback threw; its error is the one thrown
OpenAIThrows(outcome) ==
  /\ pc = "agent.awaitOpenAI"
  /\ LET result == openAIAttempt(outcome)
     IN /\ result.threw
        /\ requests' = withReply(requests, outcome, result)
        /\ lastError' = result.message
        /\ answer' = Rejected(result.message)
  /\ pc' = "agent.done"
  /\ UNCHANGED <<build, traversal, worldVars, attempt, query>>

\* ---- the inputs of the agent ----

\* a JSON object with the properties that are given
Present(fields) ==
  [name \in {n \in DOMAIN fields : fields[n] # Undefined} |-> fields[name]]

RawOperation(action, blendMode, shapes, softEdge, extractAsset, assetLabel) ==
  JObj(Present([action |-> action, blendMode |-> blendMode, shapes |-> shapes,
                softEdge |-> softEdge, extractAsset |-> extractAsset,
                assetLabel |-> assetLabel]))

Origin == JArr(<<JNum(0, 1), JNum(1, 1), JNum(0, 1)>>)
RawSphere == JObj([type |-> JStr("SPHERE"), position |-> Origin, radius |-> JNum(-1, 1)])
RawBox ==
  JObj([type |-> JStr("BOX"), position |-> Origin,
        scale |-> JArr(<<JNum(2, 1), JNum(-1, 1), JNum(1, 1)>>),
        color |-> JArr(<<JNum(2, 1), JNum(1, 2), JNum(-1, 1)>>),
        opacity |-> JNum(1, 2)])
RawOpaque == JObj([type |-> JStr("ALL"), position |-> Origin, opacity |-> JNum(3, 1)])
RawBadType == JObj([type |-> JStr("TORUS"), position |-> Origin])
RawBadPosition ==
  JObj([type |-> JStr("BOX"), position |-> JArr(<<JNum(0, 1), JNum(1, 1)>>)])

RawShapeLists ==
  {JArr(<<RawSphere>>), JArr(<<RawBox, RawSphere>>), JArr(<<RawOpaque>>), JArr(<<>>),
   JArr(<<RawBadType>>), JArr(<<RawSphere, RawBadPosition>>), JArr(<<JNull>>),
   JStr("SPHERE")}

RawOperations ==
  {RawOperation(JStr(a), JStr(b), JArr(<<RawSphere>>), Undefined, Undefined, Undefined) :
     a \in EDIT_ACTIONS, b \in BLEND_MODES}
  \cup {RawOperation(JStr(ab[1]), JStr(ab[2]), JArr(<<RawSphere>>), Undefined, Undefined,
                     Undefined) :
          ab \in {<<"explode", "MULTIPLY">>, <<"delete", "OVERLAY">>}}
  \cup {RawOperation(JStr("delete"), JStr("SET_RGB"), s, Undefined, JBool(FALSE),
                     JStr(<<" ">>)) : s \in RawShapeLists}
  \cup {RawOperation(JStr(a), JStr("ADD_RGBA"), JArr(<<RawBox, RawOpaque>>), e, x, l) :
          a \in {"delete", "light"},
          e \in {JNum(1, 2), JNum(0, 1), JNum(50, 1), JStr("soft")},
          x \in {JBool(FALSE), JStr("yes")},
          l \in {JStr(<<" ", "O", "l", "d", " ", "C", "h", "a", "i", "r", " ">>), JNum(7, 1)}}
  \cup {JNull, JArr(<<>>), JObj([blendMode |-> JStr("MULTIPLY")])}

ValidDelete ==
  RawOperation(JStr("delete"), JStr("SET_RGB"), JArr(<<RawBox>>), Undefined, Undefined,
               Undefined)

OtherTexts ==
  {Plain(JArr(<<>>)), Plain(JArr(<<ValidDelete, JNull>>)),
   Plain(JArr(<<ValidDelete, ValidDelete>>)), Plain(JObj([not |-> JStr("array")])),
   Plain(NotJson), Plain(Blank), Fenced(JArr(<<ValidDelete>>)), Fenced(NotJson),
   Fenced(Blank), Fenced(JArr(<<JNull>>))}

ResponseTexts == {Plain(JArr(<<op>>)) : op \in RawOperations} \cup OtherTexts

ResponsePayloads ==
  {[text |-> text, parts |-> <<>>] : text \in ResponseTexts}
  \cup {[text |-> Undefined, parts |-> <<>>],
        [text |-> Undefined, parts |-> <<Plain(Blank), Plain(JArr(<<ValidDelete>>))>>],
        [text |-> Plain(Blank), parts |-> <<Plain(Blank)>>]}

ApiErrors ==
  {<<"g", "o", "t", " ", "s", "t", "a", "t", "u", "s", ":", " ", "5", "0", "3", " ", "U", "N", "A", "V", "A", "I", "L", "A", "B", "L", "E">>, <<"F", "e", "t", "c", "h", " ", "F", "a", "i", "l", "e", "d">>, <<"A", "P", "I", " ", "k", "e", "y", " ", "n", "o", "t", " ", "v", "a", "l", "i", "d">>,
   <<"R", "e", "q", "u", "e", "s", "t", " ", "T", "i", "m", "e", "o", "u", "t">>, <<"q", "u", "o", "t", "a", " ", "e", "x", "c", "e", "e", "d", "e", "d", " ", "(", "4", "2", "9", ")">>}

ModelOutcomes ==
  {[rejected |-> TRUE, message |-> message] : message \in ApiErrors}
  \cup {[rejected |-> FALSE, payload |-> payload] : payload \in ResponsePayloads}

\* the outcomes of the request to the fallback model
OpenAIOutcomes ==
  {outcome \in ModelOutcomes :
     outcome.rejected \/ outcome.payload.text \in OtherTexts \cup {Undefined}}

AgentCommands ==
  {<<>>, <<" ", " ">>, <<" ", "D", "e", "l", "e", "t", "e", " ", "t", "h", "e", " ", " ", "C", "h", "a", "i", "r", "!", " ">>, <<"!", "?">>, [i \in 1..50 |-> "a"]}

AgentContexts ==
  {[clickPosition |-> Null, voxelContext |-> Null, manifestSummary |-> Null,
    hasSecondaryImage |-> FALSE],
   [clickPosition |-> <<1, 2, 3>>, voxelContext |-> <<" ", "c", "e", "l", "l", "s", " ">>,
    manifestSummary |-> <<" ", "s", "c", "e", "n", "e", " ">>, hasSecondaryImage |-> TRUE],
   [clickPosition |-> <<1, 2, 3>>, voxelContext |-> <<" ">>, manifestSummary |-> <<" ">>,
    hasSecondaryImage |-> FALSE],
   [clickPosition |-> Null, voxelContext |-> <<"c", "e", "l", "l", "s">>, manifestSummary |-> Null,
    hasSecondaryImage |-> TRUE]}

AgentKeys ==
  {[apiKey |-> <<"k", "e", "y">>, openAIApiKey |-> <<>>], [apiKey |-> <<" ", "k", "e", "y", " ">>, openAIApiKey |-> <<"s", "k">>],
   [apiKey |-> <<" ">>, openAIApiKey |-> <<"s", "k">>], [apiKey |-> <<>>, openAIApiKey |-> <<" ">>]}

\* the calls: every command with one context and one pair of keys, and one
\* command with every context and every pair of keys
AgentCalls ==
  {<<command, context, keys>> :
     command \in AgentCommands,
     context \in {c \in AgentContexts : c.clickPosition # Null /\ c.hasSecondaryImage},
     keys \in {k \in AgentKeys : k.apiKey = <<" ", "k", "e", "y", " ">>}}
  \cup {<<<<" ", "D", "e", "l", "e", "t", "e", " ", "t", "h", "e", " ", " ", "C", "h", "a", "i", "r", "!", " ">>, context, keys>> :
          context \in AgentContexts, keys \in AgentKeys}

InitAgent ==
  /\ NoTraversal
  /\ pc = "agent.entry"
  /\ rawBounds = None /\ config = None /\ cropped = None /\ accumulators = None
  /\ totalSplats = None /\ indexedSplats = None /\ splats = None /\ grid = None
  /\ \E call \in AgentCalls :
       query = [command |-> call[1], clickPosition |-> call[2].clickPosition,
                voxelContext |-> call[2].voxelContext,
                manifestSummary |-> call[2].manifestSummary,
                hasSecondaryImage |-> call[2].hasSecondaryImage,
                apiKey |-> call[3].apiKey, openAIApiKey |-> call[3].openAIApiKey]
  /\ attempt = 0 /\ lastError = Null /\ requests = <<>>
  /\ currentGrid = None /\ currentManifest = None /\ lastClickPoint = None
  /\ currentWorldId = None /\ worldLoading = None /\ loadCalls = None
  /\ answer = None

NextAgent ==
  \/ RejectEmptyCommand
  \/ RejectMissingKey
  \/ StartProcessCommand
  \/ SendGeminiRequest
  \/ LeaveRetryLoop
  \/ \E outcome \in ModelOutcomes : GeminiReturns(outcome)
  \/ \E outcome \in ModelOutcomes : GeminiThrows(outcome)
  \/ SendOpenAIRequest
  \/ ThrowLastError
  \/ \E outcome \in OpenAIOutcomes : OpenAIReturns(outcome)
  \/ \E outcome \in OpenAIOutcomes : OpenAIThrows(outcome)

SpecAgent == InitAgent /\ [][NextAgent]_vars
\* ---- C23 ----
SimplifiedLine == "- Return only valid JSON array of EditOperation objects. No markdown."
Simplified(userText) == \E i \in 1..Len(userText) : userText[i].text = SimplifiedLine
Failed(request) == "threw" \in DOMAIN request.reply /\ request.reply.threw
Succeeded(request) == "threw" \in DOMAIN request.reply /\ ~request.reply.threw
GeminiRequests == SelectSeq(requests, LAMBDA request : request.model = "gemini")
OpenAIRequests == SelectSeq(requests, LAMBDA request : request.model = "openai")
AgentDone == pc = "agent.done"

\* C23: a command makes at most two requests to the Gemini model; the
\* second is made only after the first attempt threw, and it alone carries
\* the simplified-output line; an attempt that yields a valid list ends the
\* call, which resolves with that list and makes no further request; when
\* both attempts throw and the error of the second is not one the code
\* takes for transient, no other model is asked and the call rejects with
\* the error of the second attempt (as it does whenever no fallback
\* request follows).
C23_OneRetryThenLastError ==
  /\ Len(GeminiRequests) <= 2
  /\ \A i \in 1..Len(GeminiRequests) :
       /\ requests[i] = GeminiRequests[i]
       /\ Simplified(requests[i].userText) <=> i = 2
       /\ i > 1 => Failed(requests[i - 1])
  /\ \A i \in 1..Len(requests) :
       Succeeded(requests[i]) =>
         /\ i = Len(requests)
         /\ AgentDone
         /\ answer = Resolved(requests[i].reply.value)
  /\ (AgentDone /\ Len(GeminiRequests) = 2 /\ Failed(requests[2])) =>
       /\ ~shouldUseOpenAIFallback(geminiApiKey, requests[2].reply.message)
            => Len(requests) = 2
       /\ Len(requests) = 2 => answer = Rejected(requests[2].reply.message)

\* both attempts threw, the second with an error that is not transient
C23_Witness ==
  /\ AgentDone
  /\ Len(requests) = 2
  /\ Failed(requests[1]) /\ Failed(requests[2])
  /\ requests[1].reply.message # requests[2].reply.message
  /\ openAIApiKey # <<>>
  /\ answer.status = "rejected"

\* the first attempt threw and the retry returned a list
C23_RetryWitness ==
  /\ AgentDone
  /\ Len(requests) = 2
  /\ Failed(requests[1]) /\ Succeeded(requests[2])
  /\ Simplified(requests[2].userText)
  /\ answer.status = "resolved"

\* the first attempt returned a list
C23_FirstWitness ==
  AgentDone /\ Len(requests) = 1 /\ Succeeded(requests[1]) /\ answer.status = "resolved"

\* both attempts threw a transient error and the fallback model answered
C23_FallbackWitness ==
  /\ AgentDone
  /\ Len(GeminiRequests) = 2 /\ Len(OpenAIRequests) = 1
  /\ Succeeded(requests[3])

\* ---- C24 ----
\* the operations the response of a request spelled, before validation
RawOperationsOf(request) ==
  LET text == extractText(request.response.payload, <<>>).value
  IN text.content.arr

\* the operations the call resolved with
ReturnedOperations ==
  IF AgentDone /\ answer.status = "resolved" THEN answer.operations ELSE <<>>

\* the response the returned operations were validated from
LastRawOperations == RawOperationsOf(requests[Len(requests)])

SoftEdgeDefault(op) ==
  IF op.action \in {"light", "atmosphere"} THEN Frac(2, 10) ELSE Frac(1, 10)

\* C24: every operation processCommand resolves with obeys the forced
\* defaults: a delete has blend mode MULTIPLY, extractAsset true, a label
\* of at least one character and opacity 0 on each of its shapes; recolor,
\* darken and light have SET_RGB, MULTIPLY and ADD_RGBA; and an operation
\* whose response gave no numeric softEdge has softEdge 0.2 when it is a
\* light or atmosphere operation and 0.1 otherwise.
C24_ForcedOperationDefaults ==
  \A i \in 1..Len(ReturnedOperations) :
    LET op == ReturnedOperations[i]
        raw == LastRawOperations[i]
    IN /\ op.action = "delete" =>
            /\ op.blendMode = "MULTIPLY"
            /\ op.extractAsset = JBool(TRUE)
            /\ kind(op.assetLabel) = "str" /\ Len(op.assetLabel.str) > 0
            /\ \A k \in 1..Len(op.shapes) : op.shapes[k].opacity = JNum(0, 1)
       /\ op.action = "recolor" => op.blendMode = "SET_RGB"
       /\ op.action = "darken" => op.blendMode = "MULTIPLY"
       /\ op.action = "light" => op.blendMode = "ADD_RGBA"
       /\ ~isFiniteNumber(prop(raw, "softEdge")) =>
            FracEq(op.softEdge.num, SoftEdgeDefault(op))

\* a delete returned from a response that asked for SET_RGB, no asset, a
\* blank label and a half-opaque shape
C24_Witness ==
  \E i \in 1..Len(ReturnedOperations) :
    /\ ReturnedOperations[i].action = "delete"
    /\ prop(LastRawOperations[i], "blendMode") = JStr("SET_RGB")
    /\ prop(LastRawOperations[i], "extractAsset") = JBool(FALSE)
    /\ prop(LastRawOperations[i], "assetLabel") = JStr(<<" ">>)
    /\ prop(LastRawOperations[i].obj.shapes.arr[1], "opacity") = JNum(1, 2)
    /\ ReturnedOperations[i].assetLabel = JStr(<<"d", "e", "l", "e", "t", "e", " ", "t", "h", "e", " ", "c", "h", "a", "i", "r">>)

\* a recolor returned from a response that asked for ADD_RGBA
C24_RecolorWitness ==
  \E i \in 1..Len(ReturnedOperations) :
    /\ ReturnedOperations[i].action = "recolor"
    /\ prop(LastRawOperations[i], "blendMode") = JStr("ADD_RGBA")

\* a light returned from a response without softEdge
C24_SoftEdgeWitness ==
  \E i \in 1..Len(ReturnedOperations) :
    /\ ReturnedOperations[i].action = "light"
    /\ prop(LastRawOperations[i], "softEdge") = Undefined
    /\ ReturnedOperations[i].softEdge = JNum(2, 10)

\* ---------------------------------------------------------------------
\* Termination of the readers (C25).
\* ---------------------------------------------------------------------

\* the rings the loop of getCellAtWorldPos scans, lines 555-574
RECURSIVE ringsScanned(_, _, _, _, _)
ringsScanned(grid_, pos, clamped, r, best) ==
  IF r > 5 THEN {}
  ELSE LET m == minCellSize(grid_.cellSize)
           minRingDist == [n |-> m.n * (r - 1), d |-> m.d]
           minRingDistSq == [n |-> minRingDist.n * minRingDist.n,
                             d |-> minRingDist.d * minRingDist.d]
       IN IF FracLess(best.bestDist, minRingDistSq)
          THEN {}
          ELSE {r} \cup ringsScanned(grid_, pos, clamped, r + 1,
                 scanCube(grid_, pos, CubeLo(clamped, r),
                          CubeHi(clamped, r, grid_.resolution), 0, best))

\* how many times the ring loop of getCellAtWorldPos(grid_, pos) looks the
\* cell of a key up: once for each ring scanned whose cube holds the key
ringLookups(grid_, pos, key) ==
  LET coord == worldPosToGridCoord(pos, grid_.worldBounds, grid_.resolution, FALSE)
      clamped == worldPosToGridCoord(pos, grid_.worldBounds, grid_.resolution, TRUE)
  IN IF CellAt(grid_, coord) # Null \/ clamped = Null \/ CellAt(grid_, clamped) # Null
     THEN 0
     ELSE Cardinality(
            {r \in ringsScanned(grid_, pos, clamped, 1,
                                [nearest |-> Null, bestDist |-> Infinity]) :
               \A a \in 1..3 : /\ CubeLo(clamped, r)[a] <= key[a]
                               /\ key[a] <= CubeHi(clamped, r, grid_.resolution)[a]})

\* one call of generateManifest, buildLocalSelection or getCellAtWorldPos on
\* a grid that was built before; the locals of the call start empty
InitCalls ==
  /\ NoSession
  /\ cellLabels = EmptyMap /\ visited = {} /\ queue = <<>> /\ component = <<>>
  /\ cursor = 0 /\ regions = <<>> /\ accepted = EmptyMap /\ rejectedCells = 0
  /\ reasons = <<>> /\ seedKey = <<>>
  /\ rawBounds = ManifestBox
  /\ \E scene \in [1..Len(StatsSlots) -> ReaderTemplates \cup {NoPoints}] :
       splats = sceneMesh(StatsSlots, scene, 1)
  /\ grid = buildSpatialGrid(rawBounds, ManifestOptions, splats)
  /\ cropped = None /\ accumulators = None
  /\ totalSplats = 0 /\ indexedSplats = 0 /\ answer = Null
  /\ \/ /\ pc = "manifest.start"
        /\ query = [op |-> "generateManifest"]
        /\ config = Null
     \/ /\ pc = "select.start"
        /\ \E click \in ReaderClicks : query = [op |-> "buildLocalSelection", click |-> click]
        /\ config \in SelectOptions
     \/ /\ pc = "query.call"
        /\ \E pos \in ReaderPositions : query = [op |-> "getCellAtWorldPos", pos |-> pos]
        /\ config = Null

NextCalls == NextManifest \/ NextSelect \/ CallGetCellAtWorldPos

SpecCalls == InitCalls /\ [][NextCalls]_vars

\* the positions of a call before and after its return
InCall ==
  pc \in {"manifest.start", "manifest.regions", "manifest.flood", "select.start",
          "select.grow", "select.finish", "query.call"}
CallOver == pc \in {"manifest.done", "select.done", "query.returned"}

\* the code is synchronous and nothing else runs between two of its steps, so
\* a call that has started keeps running until it returns: weak fairness of
\* NextCalls, WF_vars(NextCalls), written out as
\* []<>~ENABLED <<NextCalls>>_vars \/ []<><<NextCalls>>_vars with CallOver for
\* ~ENABLED <<NextCalls>>_vars, a step being enabled exactly until the call
\* returns
FairCalls == SpecCalls /\ ([]<>CallOver \/ []<><<NextCalls>>_vars)


NoRepeat(s) == \A i, j \in 1..Len(s) : s[i] = s[j] => i = j

\* the flood fill has put no cell twice into the component it collects, and
\* only cells it marked visited
FloodOnce ==
  pc = "manifest.flood" =>
    NoRepeat(component) /\ SeqElems(component) \subseteq visited

\* the growth has accepted no cell twice, and each cell it accepted or
\* rejected is a different visited cell
GrowthOnce ==
  (pc \in {"select.grow", "select.finish"} \/ (SelectionDone /\ ~NoSeedFound)) =>
    /\ NoRepeat(accepted.order)
    /\ SeqElems(accepted.order) \subseteq visited
    /\ MapSize(accepted) + rejectedCells <= Cardinality(visited)

GridKeys == {<<x, y, z>> : x \in 0..1, y \in 0..1, z \in 0..1}

QueryReturned == pc = "query.returned"

\* the ring loop looks no cell up more than n times
RingLookupsAtMost(n) ==
  QueryReturned => \A key \in GridKeys : ringLookups(grid, query.pos, key) <= n

\* the work list of the call that returned is empty
WorkListDrained ==
  /\ pc = "manifest.done" => queue = <<>>
  /\ (SelectionDone /\ ~NoSeedFound) => queue = <<>>

\* the work list of the call that returned is empty, unless a traversal
\* bound ended the growth of a selection
WorkListDrainedOrBound ==
  /\ pc = "manifest.done" => queue = <<>>
  /\ (SelectionDone /\ ~NoSeedFound /\ reasons = <<>>) => queue = <<>>

C25_RingWitness ==
  QueryReturned /\ \E key \in GridKeys : ringLookups(grid, query.pos, key) >= 2

\* a flood fill that popped a cell it had visited already
C25_FloodWitness ==
  pc = "manifest.flood" /\ Len(queue) > 0 /\ popped \in visited

\* ---------------------------------------------------------------------
\* Traversal bounds and diagnostics.reason (C26).
\* ---------------------------------------------------------------------

\* a selection returned a result
SelectionReturned == pc = "select.done" /\ answer # Null

\* lines 70-73: the visit that exceeded maxVisitedCells ended the growth
VisitedBoundHit == Cardinality(visited) > config.maxVisitedCells

\* lines 84-87: the cluster reached maxClusterCells and ended the growth
ClusterBoundHit == ~VisitedBoundHit /\ MapSize(accepted) >= config.maxClusterCells

\* the occupied face neighbours of a cell of the grid that were never visited
unvisitedNeighbors(key) ==
  enqueueNeighbors(getFaceNeighbors(grid, faceNeighbors(key), 1), visited, 0, 1, <<>>)

\* lines 89-91: the growth ran until the queue was empty and left a face
\* neighbour of a cluster cell unvisited, which only the depth limit does
DepthBoundHit ==
  /\ ~VisitedBoundHit /\ ~ClusterBoundHit
  /\ \E key \in SeqElems(accepted.order) : unvisitedNeighbors(key) # <<>>

\* the two bounds that end the loop are recorded, and nothing else is
BreakReasonsRecorded ==
  SelectionReturned =>
    /\ VisitedBoundHit => answer.diagnostics.reason = <<"maxVisitedCells">>
    /\ ClusterBoundHit => answer.diagnostics.reason = <<"maxClusterCells">>
    /\ (~VisitedBoundHit /\ ~ClusterBoundHit) => answer.diagnostics.reason = <<>>

\* C26: a result of buildLocalSelection whose growth a bound cut short names
\* that bound (visited cells, cluster size or depth) in diagnostics.reason,
\* and a result whose growth hit no bound has an empty diagnostics.reason.
C26_FirstViolatedBoundRecorded ==
  SelectionReturned =>
    /\ VisitedBoundHit => answer.diagnostics.reason = <<"maxVisitedCells">>
    /\ ClusterBoundHit => answer.diagnostics.reason = <<"maxClusterCells">>
    /\ DepthBoundHit => /\ Len(answer.diagnostics.reason) = 1
                        /\ answer.diagnostics.reason # <<"maxVisitedCells">>
                        /\ answer.diagnostics.reason # <<"maxClusterCells">>
    /\ (~VisitedBoundHit /\ ~ClusterBoundHit /\ ~DepthBoundHit) =>
         answer.diagnostics.reason = <<>>

\* a result cut short by the depth limit alone
C26_DepthCut == SelectionReturned /\ DepthBoundHit

\* ---------------------------------------------------------------------
\* The regions partition the labelled cells (C28).
\* ---------------------------------------------------------------------

\* C28: in the manifest generateManifest returns, every cell of ten points or
\* more is a member of exactly one region, no cell key occurs twice in a
\* region, no region is empty, the members of a region are cells of ten
\* points or more, and each carries the label of its region.
C28_RegionsPartitionLabelledCells ==
  pc = "manifest.done" =>
    /\ \A k \in DenseKeys : Cardinality(RegionsHolding(k)) = 1
    /\ \A r \in 1..Len(answer.regions) :
         LET region == answer.regions[r]
         IN /\ Len(region.gridCells) > 0
            /\ NoRepeat(region.gridCells)
            /\ SeqElems(region.gridCells) \subseteq DenseKeys
            /\ \A k \in SeqElems(region.gridCells) : LabelOf(k) = region.label

\* a manifest of two regions or more, one of them of several cells, on a grid
\* that also holds a cell of fewer than ten points
C28_Witness ==
  /\ pc = "manifest.done"
  /\ Len(answer.regions) >= 2
  /\ \E r \in 1..Len(answer.regions) : Len(answer.regions[r].gridCells) >= 2
  /\ SparseKeys # {}

\* ---------------------------------------------------------------------
\* The cluster is connected through its members (C29).
\* ---------------------------------------------------------------------

\* C29: every cell of a cluster buildLocalSelection returns is reached from
\* the seed by at most maxDepth face-adjacent steps through cells of the
\* cluster, and the cluster cells and the rejected cells together are no
\* more than the visited cells reported.
C29_ClusterConnectedThroughMembers ==
  SelectionReturned =>
    LET keys == SeqElems(answer.clusterCellKeys)
    IN /\ keys \subseteq AcceptedWithin(config.maxDepth, keys)
       /\ Len(answer.clusterCellKeys) + answer.diagnostics.rejectedCells
            <= answer.diagnostics.visitedCells

\* a cluster with a cell two steps from the seed, returned after a cell of
\* another colour was rejected
C29_Witness ==
  /\ SelectionReturned
  /\ answer.diagnostics.rejectedCells >= 1
  /\ \E k \in SeqElems(answer.clusterCellKeys) :
       k # seedKey /\ ~FaceAdjacent(seedKey, k)

\* a cluster that ends at the depth limit, with a cell of the seed's colour
\* beyond it
C29_DepthWitness ==
  /\ SelectionReturned /\ DepthBoundHit
  /\ Len(answer.clusterCellKeys) >= 2

(***************************************************************************)
(* generateManifest run to completion (part_000 lines 11-40), as the       *)
(* application calls it.                                                   *)
(***************************************************************************)
\* lines 207-250: floodFill from the work list queue_ on
RECURSIVE floodFill(_, _, _, _, _, _)
floodFill(grid_, labels, targetLabel_, visited_, component_, queue_) ==
  IF Len(queue_) = 0 THEN [component |-> component_, visited |-> visited_]
  ELSE LET key == queue_[Len(queue_)]
           rest == SubSeq(queue_, 1, Len(queue_) - 1)
       IN IF key \in visited_
          THEN floodFill(grid_, labels, targetLabel_, visited_, component_, rest)
          ELSE IF ~labelMatches(labels, key, targetLabel_)
          THEN floodFill(grid_, labels, targetLabel_, visited_, component_, rest)
          ELSE floodFill(grid_, labels, targetLabel_, visited_ \cup {key},
                 Append(component_, key),
                 IF MapHas(grid_.cells, key)
                 THEN pushNeighbors(grid_.resolution, labels, visited_ \cup {key},
                                    faceNeighbors(MapGet(grid_.cells, key).gridPos), 1, rest)
                 ELSE rest)

\* lines 146-205: buildRegions from the i-th labelled cell on
RECURSIVE buildRegions(_, _, _, _, _)
buildRegions(grid_, labels, i, visited_, regions_) ==
  IF i > MapSize(labels) THEN sortRegions(grid_, regions_, Len(regions_))
  ELSE IF labels.order[i] \in visited_
  THEN buildRegions(grid_, labels, i + 1, visited_, regions_)
  ELSE LET filled == floodFill(grid_, labels, labels.val[i].label, visited_, <<>>,
                               <<labels.order[i]>>)
       IN buildRegions(grid_, labels, i + 1, filled.visited,
            IF Len(filled.component) = 0 THEN regions_
            ELSE Append(regions_, makeRegion(grid_, labels, labels.val[i].label,
                                             filled.component)))

\* lines 11-40
generateManifest(grid_) ==
  LET labels == labelCells(grid_, 1, EmptyMap)
      regions_ == buildRegions(grid_, labels, 1, {}, <<>>)
  IN [description |-> generateDescription(regions_, MapSize(grid_.cells)),
      regions |-> regions_, grid |-> grid_, screenshots |-> <<>>]

\* the manifest the steps of SpecManifest return is the one computed at once
ManifestAsComputed == pc = "manifest.done" => answer = generateManifest(grid)

(***************************************************************************)
(* The application (main.ts): the worlds of the catalog are loaded by      *)
(* loadWorldById, which rebuilds the grid and the manifest, and a click on *)
(* the scene is remembered (SpecWorld).  A call of loadWorldById runs up   *)
(* to its await of loadWorld at once, and from the settling of loadWorld   *)
(* to its end at once; calls and clicks come at any time in between.       *)
(***************************************************************************)
MaxLoadCalls == 3

WorldBox == FinBox(<<0, 0, 0>>, <<20, 10, 20>>)
WorldSlots == <<<<1, 4, 1>>, <<2, 4, 1>>, <<5, 4, 1>>>>

\* worldCatalog.nodes
WorldCatalog ==
  <<[id |-> "garden", sceneUrl |-> "garden.spz"],
    [id |-> "street", sceneUrl |-> "street.spz"]>>

\* the mesh loadWorld resolves with for a scene: two green cells side by side
\* and a grey one, or a grey cell beside a cell too sparse to be labelled
WorldMesh(sceneUrl) ==
  IF sceneUrl = "garden.spz"
  THEN [bounds |-> WorldBox,
        splats |-> sceneMesh(WorldSlots,
                     <<[color |-> Green, count |-> MIN_SPLATS_FOR_LABEL],
                       [color |-> Green, count |-> MIN_SPLATS_FOR_LABEL],
                       [color |-> Grey, count |-> MIN_SPLATS_FOR_LABEL + 1]>>, 1)]
  ELSE [bounds |-> WorldBox,
        splats |-> sceneMesh(WorldSlots,
                     <<[color |-> Grey, count |-> MIN_SPLATS_FOR_LABEL + 1],
                       [color |-> Green, count |-> MIN_SPLATS_FOR_LABEL - 1],
                       NoPoints>>, 1)]

WorldIds == {"garden", "street", "nowhere"}
WorldClicks == {<<1, 4, 1>>, <<5, 4, 1>>}

\* line 166: worldCatalog.nodes.find(candidate => candidate.id === worldId)
findNode(worldId) ==
  LET found == {i \in 1..Len(WorldCatalog) : WorldCatalog[i].id = worldId}
  IN IF found = {} THEN Undefined
     ELSE WorldCatalog[CHOOSE i \in found : \A j \in found : i <= j]

\* lines 36-42
InitWorld ==
  /\ pc = "app.ready"
  /\ rawBounds = None /\ config = None /\ cropped = None /\ accumulators = None
  /\ totalSplats = None /\ indexedSplats = None /\ splats = None /\ grid = None
  /\ query = None /\ answer = None
  /\ NoTraversal
  /\ attempt = None /\ lastError = None /\ requests = None
  /\ currentGrid = Null /\ currentManifest = Null /\ lastClickPoint = Null
  /\ currentWorldId = JNull /\ worldLoading = FALSE
  /\ loadCalls = <<>>

Call(worldId, outcome) == [worldId |-> worldId, outcome |-> outcome]

\* lines 162-165: a call while another load is running returns at once
IgnoreWorldSwap(worldId) ==
  /\ Len(loadCalls) < MaxLoadCalls
  /\ worldLoading
  /\ loadCalls' = Append(loadCalls, Call(worldId, "ignored"))
  /\ UNCHANGED <<pc, build, answer, traversal, attempt, lastError, requests, currentGrid,
                 currentManifest, lastClickPoint, currentWorldId, worldLoading>>

\* lines 166-169: the world is not in the catalog
ThrowUnknownWorld(worldId) ==
  /\ Len(loadCalls) < MaxLoadCalls
  /\ ~worldLoading
  /\ findNode(worldId) = Undefined
  /\ loadCalls' = Append(loadCalls, Call(worldId, "unknown"))
  /\ UNCHANGED <<pc, build, answer, traversal, attempt, lastError, requests, currentGrid,
                 currentManifest, lastClickPoint, currentWorldId, worldLoading>>

\* a call that starts a load although another one is running
StartWorldLoadUnguarded(worldId) ==
  /\ Len(loadCalls) < MaxLoadCalls
  /\ findNode(worldId) # Undefined
  /\ worldLoading' = TRUE
  /\ loadCalls' = Append(loadCalls, Call(worldId, "pending"))
  /\ UNCHANGED <<pc, build, answer, traversal, attempt, lastError, requests, currentGrid,
                 currentManifest, lastClickPoint, currentWorldId>>

\* lines 171-176: the flag is set and loadWorld awaited
StartWorldLoad(worldId) ==
  /\ Len(loadCalls) < MaxLoadCalls
  /\ ~worldLoading
  /\ findNode(worldId) # Undefined
  /\ worldLoading' = TRUE
  /\ loadCalls' = Append(loadCalls, Call(worldId, "pending"))
  /\ UNCHANGED <<pc, build, answer, traversal, attempt, lastError, requests, currentGrid,
                 currentManifest, lastClickPoint, currentWorldId>>

LoadPending(i) == i \in 1..Len(loadCalls) /\ loadCalls[i].outcome = "pending"

\* lines 199-208: loadWorld rejects; the error is thrown on and the flag cleared
LoadWorldRejects(i) ==
  /\ LoadPending(i)
  /\ worldLoading' = FALSE
  /\ loadCalls' = [loadCalls EXCEPT ![i].outcome = "failed"]
  /\ UNCHANGED <<pc, build, answer, traversal, attempt, lastError, requests, currentGrid,
                 currentManifest, lastClickPoint, currentWorldId>>

\* a load that keeps the last click point
LoadWorldResolvesKeepingClick(i) ==
  /\ LoadPending(i)
  /\ LET node == findNode(loadCalls[i].worldId)
         world == WorldMesh(node.sceneUrl)
     IN /\ currentWorldId' = JStr(node.id)
        /\ currentGrid' = buildSpatialGrid(world.bounds, DEFAULT_OPTIONS, world.splats)
        /\ currentManifest' = generateManifest(currentGrid')
  /\ worldLoading' = FALSE
  /\ loadCalls' = [loadCalls EXCEPT ![i].outcome = "loaded"]
  /\ UNCHANGED <<pc, build, answer, traversal, attempt, lastError, requests, lastClickPoint>>

\* lines 176-198 and 206-208: loadWorld resolves; the world id, the grid and
\* the manifest are replaced, the click point reset and the flag cleared
LoadWorldResolves(i) ==
  /\ LoadPending(i)
  /\ LET node == findNode(loadCalls[i].worldId)
         world == WorldMesh(node.sceneUrl)
     IN /\ currentWorldId' = JStr(node.id)
        /\ lastClickPoint' = Null
        /\ currentGrid' = buildSpatialGrid(world.bounds, DEFAULT_OPTIONS, world.splats)
        /\ currentManifest' = generateManifest(currentGrid')
  /\ worldLoading' = FALSE
  /\ loadCalls' = [loadCalls EXCEPT ![i].outcome = "loaded"]
  /\ UNCHANGED <<pc, build, answer, traversal, attempt, lastError, requests>>

\* lines 84-86: a click on the scene
SplatClick(point) ==
  /\ lastClickPoint' = point
  /\ UNCHANGED <<pc, build, answer, traversal, attempt, lastError, requests, currentGrid,
                 currentManifest, currentWorldId, worldLoading, loadCalls>>

\* the promise of loadWorld settles
LoadWorldSettles ==
  \/ \E i \in 1..MaxLoadCalls : LoadWorldRejects(i)
  \/ \E i \in 1..MaxLoadCalls : LoadWorldResolves(i)

NextWorld ==
  \/ \E worldId \in WorldIds : IgnoreWorldSwap(worldId)
  \/ \E worldId \in WorldIds : ThrowUnknownWorld(worldId)
  \/ \E worldId \in WorldIds : StartWorldLoad(worldId)
  \/ LoadWorldSettles
  \/ \E point \in WorldClicks : SplatClick(point)

SpecWorld == InitWorld /\ [][NextWorld]_vars

\* a load that was started settles: the promise of loadWorld (the mesh's
\* initialized) resolves or rejects in the end
FairWorld == SpecWorld /\ WF_vars(LoadWorldSettles)

(***************************************************************************)
(* Claims about the application (SpecWorld, FairWorld).                    *)
(***************************************************************************)
\* the step in which the i-th call of loadWorldById ends with its world loaded
LoadSucceeds(i) == LoadPending(i) /\ loadCalls'[i].outcome = "loaded"

\* the step in which the i-th call of loadWorldById ends, loaded or failed
LoadEnds(i) == LoadPending(i) /\ loadCalls'[i].outcome # "pending"

\* the grid buildSpatialGrid makes of the mesh of a world of the catalog
GridOfWorld(worldId) ==
  LET world == WorldMesh(findNode(worldId).sceneUrl)
  IN buildSpatialGrid(world.bounds, DEFAULT_OPTIONS, world.splats)

\* C27: when a call loadWorldById(w) succeeds, the current grid is the grid
\* built from the mesh of w, the current manifest is the one generated from
\* that grid, the last click point is null and, w being another world than
\* before, getGrid and getManifest no longer return the previous grid and
\* manifest; and the grid and the manifest change in no other step.
C27_GridFollowsSceneLifecycle ==
  /\ [][\A i \in 1..MaxLoadCalls :
          LoadSucceeds(i) =>
            /\ currentWorldId' = JStr(loadCalls[i].worldId)
            /\ currentGrid' = GridOfWorld(loadCalls[i].worldId)
            /\ currentManifest' = generateManifest(currentGrid')
            /\ currentManifest'.grid = currentGrid'
            /\ lastClickPoint' = Null
            /\ currentWorldId # JStr(loadCalls[i].worldId) =>
                 currentGrid' # currentGrid /\ currentManifest' # currentManifest]_vars
  /\ [][(currentGrid' # currentGrid \/ currentManifest' # currentManifest) =>
          \E i \in 1..MaxLoadCalls : LoadSucceeds(i)]_vars

\* a second world has just been loaded over the first, after a click
C27_Witness ==
  /\ \E i, j \in 1..Len(loadCalls) :
       /\ i < j
       /\ loadCalls[i].outcome = "loaded" /\ loadCalls[j].outcome = "loaded"
       /\ loadCalls[i].worldId # loadCalls[j].worldId
       /\ currentWorldId = JStr(loadCalls[j].worldId)
  /\ lastClickPoint = Null
  /\ Len(currentManifest.regions) >= 1

\* a click made after the load is kept
C27_ClickWitness ==
  /\ currentWorldId # JNull /\ ~worldLoading /\ lastClickPoint # Null

PendingLoads == {i \in 1..Len(loadCalls) : loadCalls[i].outcome = "pending"}

\* the step in which loadWorldById is called
LoadCalled == Len(loadCalls') = Len(loadCalls) + 1

\* C30: at most one call of loadWorldById is past the guard and not ended,
\* and worldLoading is true exactly then; a call made meanwhile returns
\* without starting a load and leaves the world id, the grid, the manifest
\* and the flag as they are; the flag is false when a load has ended,
\* loaded or failed; a call for a world of the catalog made while the flag
\* is false starts a load; and a flag that is true becomes false again.
C30_OneLoadAtATime ==
  /\ [](Cardinality(PendingLoads) <= 1 /\ (worldLoading <=> PendingLoads # {}))
  /\ [][(LoadCalled /\ worldLoading) =>
          /\ loadCalls'[Len(loadCalls')].outcome = "ignored"
          /\ UNCHANGED <<currentWorldId, currentGrid, currentManifest, worldLoading>>]_vars
  /\ [][(\E i \in 1..MaxLoadCalls : LoadEnds(i)) => ~worldLoading']_vars
  /\ [][(LoadCalled /\ ~worldLoading
           /\ findNode(loadCalls'[Len(loadCalls')].worldId) # Undefined) =>
          loadCalls'[Len(loadCalls')].outcome = "pending"]_vars
  /\ worldLoading ~> ~worldLoading

\* a call was ignored while a load was running, the load failed, and the
\* next call started a load
C30_Witness ==
  /\ Len(loadCalls) = 3
  /\ loadCalls[1].outcome = "failed"
  /\ loadCalls[2].outcome = "ignored"
  /\ loadCalls[3].outcome \in {"pending", "loaded"}

====
